---- MODULE Spec2Model ----
(***************************************************************************)
(* A model of the button generator's server (src/server/server.js):       *)
(* the output coercer (coerceSingleButton, sanitizeStyle, escapeHtml,      *)
(* escapeAttr), the token-bucket rate limiter (rateLimit) and the request  *)
(* normalizer of POST /api/generate (norm, assertClean, clampText).        *)
(*                                                                         *)
(* Text is modelled character by character: a JavaScript string is a       *)
(* sequence of one-character strings, and every regular expression of the  *)
(* source is an operator over such sequences.  A character outside ASCII   *)
(* is written by its code point ("U+FF1C").                                *)
(***************************************************************************)
EXTENDS Integers, Sequences, FiniteSets, TLC

VARIABLES
    style,      \* the text of the model button's style attribute (StyleSpec)
    html,       \* data.html, the HTML the model returned
    label,      \* exactText, the caller's cleaned text
    out,        \* what coerceSingleButton returned or threw
    again,      \* what coerceSingleButton makes of its own output
    cpc,        \* "compose" while the model output is produced, then "done"
    pieces,     \* how many pieces the model output is made of so far
    opts,       \* per limiter: the options rateLimit was called with
    buckets,    \* per limiter: its Map key -> { tokens, updatedAt }
    lastRes,    \* what the last limiter call did with its request
    streak,     \* per key: requests admitted in a row with no time between them
    burst,      \* per key: requests at this instant, the first after a full window
    watch,      \* an observer counting one client's requests from a first one on
    srv,        \* POST /api/generate: the request, what went to the backend, the response
    inflight,   \* the requests being handled at the same time (ConcurrentSpec)
    unswept,    \* the bucket table as it would be had no sweep run (SweepSpec)
    gen         \* generateButton: the client's call and its timer (TimeoutSpec)

cvars == <<style, html, label, out, again, cpc, pieces>>
lvars == <<opts, buckets, lastRes, streak, burst, watch>>
vars == <<style, html, label, out, again, cpc, pieces, opts, buckets, lastRes, streak, burst, watch, srv,
         inflight, unswept, gen>>
svars == <<srv, inflight, unswept, gen>>

-----------------------------------------------------------------------------
(* Characters and strings *)

UpperCase == {"A","B","C","D","E","F","G","H","I","J","K","L","M",
              "N","O","P","Q","R","S","T","U","V","W","X","Y","Z"}
LowerCase == {"a","b","c","d","e","f","g","h","i","j","k","l","m",
              "n","o","p","q","r","s","t","u","v","w","x","y","z"}
Digits == {"0","1","2","3","4","5","6","7","8","9"}

\* String.prototype.toLowerCase, one character
LowerMap ==
    ("A" :> "a") @@ ("B" :> "b") @@ ("C" :> "c") @@ ("D" :> "d") @@ ("E" :> "e")
    @@ ("F" :> "f") @@ ("G" :> "g") @@ ("H" :> "h") @@ ("I" :> "i") @@ ("J" :> "j")
    @@ ("K" :> "k") @@ ("L" :> "l") @@ ("M" :> "m") @@ ("N" :> "n") @@ ("O" :> "o")
    @@ ("P" :> "p") @@ ("Q" :> "q") @@ ("R" :> "r") @@ ("S" :> "s") @@ ("T" :> "t")
    @@ ("U" :> "u") @@ ("V" :> "v") @@ ("W" :> "w") @@ ("X" :> "x") @@ ("Y" :> "y")
    @@ ("Z" :> "z")
LowerChar(c) == IF c \in UpperCase THEN LowerMap[c] ELSE c

toLowerCase(s) == [i \in 1..Len(s) |-> LowerChar(s[i])]

\* the regular expression classes \s and \w
IsSpace(c) == c \in {" ", "\t", "\n", "\r"}
IsWord(c) == c \in UpperCase \cup LowerCase \cup Digits \cup {"_"}

\* s.slice(from - 1, to): the characters from..to of s (1-based, inclusive)
Slice(s, from, to) == [i \in 1..(IF to >= from THEN to - from + 1 ELSE 0) |-> s[from + i - 1]]

\* the literal lit stands in s at position i; lit is lower case and the
\* comparison ignores case, as a literal does under the i flag
LitAtCI(s, i, lit) ==
    /\ i >= 1
    /\ i + Len(lit) - 1 <= Len(s)
    /\ \A k \in 1..Len(lit) : LowerChar(s[i + k - 1]) = lit[k]

\* the same, case-sensitively
LitAt(s, i, lit) ==
    /\ i >= 1
    /\ i + Len(lit) - 1 <= Len(s)
    /\ \A k \in 1..Len(lit) : s[i + k - 1] = lit[k]

\* the first position >= from that holds character c, or 0
RECURSIVE IndexOfChar(_, _, _)
IndexOfChar(s, c, from) ==
    IF from > Len(s) THEN 0
    ELSE IF s[from] = c THEN from
    ELSE IndexOfChar(s, c, from + 1)

\* the first position >= from where the literal lit stands (ignoring case), or 0
RECURSIVE IndexOfLitCI(_, _, _)
IndexOfLitCI(s, lit, from) ==
    IF from + Len(lit) - 1 > Len(s) THEN 0
    ELSE IF LitAtCI(s, from, lit) THEN from
    ELSE IndexOfLitCI(s, lit, from + 1)

\* the position after the run of whitespace that starts at i
RECURSIVE SkipSpace(_, _)
SkipSpace(s, i) == IF i <= Len(s) /\ IsSpace(s[i]) THEN SkipSpace(s, i + 1) ELSE i

\* String.prototype.trim
RECURSIVE TrimLeft(_)
TrimLeft(s) == IF s # <<>> /\ IsSpace(Head(s)) THEN TrimLeft(Tail(s)) ELSE s
RECURSIVE TrimRight(_)
TrimRight(s) ==
    IF s # <<>> /\ IsSpace(s[Len(s)]) THEN TrimRight(SubSeq(s, 1, Len(s) - 1)) ELSE s
trim(s) == TrimRight(TrimLeft(s))

\* String.prototype.split on a one-character separator
RECURSIVE split(_, _)
split(s, sep) ==
    LET i == IndexOfChar(s, sep, 1)
    IN  IF i = 0 THEN <<s>>
        ELSE <<SubSeq(s, 1, i - 1)>> \o split(SubSeq(s, i + 1, Len(s)), sep)

\* Array.prototype.join
RECURSIVE join(_, _)
join(parts, sep) ==
    IF parts = <<>> THEN <<>>
    ELSE IF Len(parts) = 1 THEN parts[1]
    ELSE parts[1] \o sep \o join(Tail(parts), sep)

\* Array.prototype.filter(Boolean) on an array of strings
RECURSIVE filterBoolean(_)
filterBoolean(parts) ==
    IF parts = <<>> THEN <<>>
    ELSE IF Head(parts) = <<>> THEN filterBoolean(Tail(parts))
    ELSE <<Head(parts)>> \o filterBoolean(Tail(parts))

\* s contains the literal lit, ignoring case
ContainsCI(s, lit) == \E i \in 1..Len(s) : LitAtCI(s, i, lit)

\* s matches /lit\s*c/i somewhere: lit, any whitespace, then the character c
ContainsLitSpaceCharCI(s, lit, c) ==
    \E i \in 1..Len(s) :
        /\ LitAtCI(s, i, lit)
        /\ LET j == SkipSpace(s, i + Len(lit)) IN j <= Len(s) /\ s[j] = c

\* s matches /\blit\s*c/i somewhere
ContainsWordSpaceCharCI(s, lit, c) ==
    \E i \in 1..Len(s) :
        /\ LitAtCI(s, i, lit)
        /\ (i = 1 \/ ~IsWord(s[i - 1]))
        /\ LET j == SkipSpace(s, i + Len(lit)) IN j <= Len(s) /\ s[j] = c

-----------------------------------------------------------------------------
(* Literals of the source *)

STYLE_Q == <<"s","t","y","l","e","=","\"">>
BUTTON_OPEN == <<"<","b","u","t","t","o","n">>
BUTTON_CLOSE == <<"<","/","b","u","t","t","o","n",">">>
DATA_ == <<"d","a","t","a","-">>
URL == <<"u","r","l">>
IMPORTANT == <<"!","i","m","p","o","r","t","a","n","t">>
EXPRESSION == <<"e","x","p","r","e","s","s","i","o","n">>
JAVASCRIPT_COLON == <<"j","a","v","a","s","c","r","i","p","t",":">>
PADDING == <<"p","a","d","d","i","n","g">>
BORDER == <<"b","o","r","d","e","r">>
BACKGROUND == <<"b","a","c","k","g","r","o","u","n","d">>
BACKGROUND_COLOR == BACKGROUND \o <<"-","c","o","l","o","r">>
COLOR == <<"c","o","l","o","r">>

\* the allow-list of sanitizeStyle
allow == {
    BACKGROUND,
    BACKGROUND_COLOR,
    COLOR,
    <<"f","o","n","t","-","s","i","z","e">>,
    PADDING,
    BORDER,
    BORDER \o <<"-","r","a","d","i","u","s">>,
    <<"b","o","x","-","s","h","a","d","o","w">>,
    <<"l","e","t","t","e","r","-","s","p","a","c","i","n","g">>,
    <<"t","e","x","t","-","t","r","a","n","s","f","o","r","m">>,
    <<"m","i","n","-","w","i","d","t","h">>,
    <<"m","i","n","-","h","e","i","g","h","t">>,
    <<"w","i","d","t","h">>,
    <<"h","e","i","g","h","t">> }

\* the declarations added for an empty label
ADD_PADDING == PADDING \o <<":"," ","1","0","p","x"," ","1","6","p","x">>
ADD_BORDER == BORDER \o <<":"," ","1","p","x"," ","s","o","l","i","d"," ","#","c","c","c">>
ADD_BACKGROUND == BACKGROUND_COLOR \o <<":"," ","#","f","7","f","7","f","7">>

-----------------------------------------------------------------------------
(* Output coercer *)

AMP == <<"&","a","m","p",";">>
LT == <<"&","l","t",";">>
GT == <<"&","g","t",";">>
QUOT == <<"&","q","u","o","t",";">>
APOS == <<"&","#","3","9",";">>
TYPE_BUTTON == <<"t","y","p","e","=","\"","b","u","t","t","o","n","\"">>
SEP == <<";"," ">>

RECURSIVE Flatten(_)
Flatten(parts) ==
    IF parts = <<>> THEN <<>>
    ELSE IF Len(parts) = 1 THEN parts[1]
    ELSE LET h == Len(parts) \div 2
         IN  Flatten(SubSeq(parts, 1, h)) \o Flatten(SubSeq(parts, h + 1, Len(parts)))

\* escapeHtml: & first, then < > " '
escapeHtmlChar(c) ==
    CASE c = "&" -> AMP [] c = "<" -> LT [] c = ">" -> GT
      [] c = "\"" -> QUOT [] c = "'" -> APOS [] OTHER -> <<c>>
escapeHtml(s) == Flatten([i \in 1..Len(s) |-> escapeHtmlChar(s[i])])

\* escapeAttr: & first, then " and <
escapeAttrChar(c) ==
    CASE c = "&" -> AMP [] c = "\"" -> QUOT [] c = "<" -> LT [] OTHER -> <<c>>
escapeAttr(s) == Flatten([i \in 1..Len(s) |-> escapeAttrChar(s[i])])

\* sanitizeRule without its allow-list test
sanitizeRuleAnyProperty(rule) ==
    LET parts == split(rule, ":")
        prop == parts[1]
        rawVal == IF Len(parts) >= 2 THEN parts[2] ELSE <<>>
        p == toLowerCase(trim(prop))
        v == trim(rawVal)
    IN  IF prop = <<>> \/ rawVal = <<>> THEN <<>>
        ELSE IF ContainsLitSpaceCharCI(v, URL, "(") THEN <<>>
        ELSE IF ContainsCI(v, IMPORTANT) THEN <<>>
        ELSE IF ContainsLitSpaceCharCI(v, EXPRESSION, "(") THEN <<>>
        ELSE IF ContainsCI(v, JAVASCRIPT_COLON) THEN <<>>
        ELSE p \o <<":"," ">> \o v

\* one rule of sanitizeStyle: the callback of the second .map
sanitizeRule(rule) ==
    LET parts == split(rule, ":")
        prop == parts[1]
        hasVal == Len(parts) >= 2
        rawVal == IF hasVal THEN parts[2] ELSE <<>>
        p == toLowerCase(trim(prop))
        v == trim(rawVal)
    IN  IF prop = <<>> \/ rawVal = <<>> THEN <<>>
        ELSE IF p \notin allow THEN <<>>
        ELSE IF ContainsLitSpaceCharCI(v, URL, "(") THEN <<>>
        ELSE IF ContainsCI(v, IMPORTANT) THEN <<>>
        ELSE IF ContainsLitSpaceCharCI(v, EXPRESSION, "(") THEN <<>>
        ELSE IF ContainsCI(v, JAVASCRIPT_COLON) THEN <<>>
        ELSE p \o <<":"," ">> \o v

sanitizeStyle(st) ==
    LET raw == split(st, ";")
        rules == filterBoolean([i \in 1..Len(raw) |-> trim(raw[i])])
        kept == filterBoolean([i \in 1..Len(rules) |-> sanitizeRule(rules[i])])
    IN  join(kept, SEP)

\* /<button\b/i matches at position i
ButtonStartAt(h, i) ==
    /\ LitAtCI(h, i, BUTTON_OPEN)
    /\ (i + 7 > Len(h) \/ ~IsWord(h[i + 7]))

RECURSIVE IndexOfButtonStart(_, _)
IndexOfButtonStart(h, from) ==
    IF from + 6 > Len(h) THEN 0
    ELSE IF ButtonStartAt(h, from) THEN from
    ELSE IndexOfButtonStart(h, from + 1)

\* html.match(/<button\b[\s\S]*?<\/button>/gi): the matches from position
\* from on, left to right, none overlapping.  The lazy [\s\S]*? ends a match
\* at the first </button> after its start; a start with no </button> after
\* it matches nothing, and then no later start does.
RECURSIVE buttonMatches(_, _)
buttonMatches(h, from) ==
    LET i == IndexOfButtonStart(h, from)
        j == IndexOfLitCI(h, BUTTON_CLOSE, i + 7)
    IN  IF i = 0 \/ j = 0 THEN <<>>
        ELSE <<Slice(h, i, j + 8)>> \o buttonMatches(h, j + 9)

\* (btnTag.match(/style="([^"]*)"/i) || [])[1] || '': the first style=" that
\* has a closing quote after it
styleAttrOf(btnTag) ==
    LET i == IndexOfLitCI(btnTag, STYLE_Q, 1)
        q == IndexOfChar(btnTag, "\"", i + 7)
    IN  IF i = 0 \/ q = 0 THEN <<>> ELSE Slice(btnTag, i + 7, q - 1)

\* the name class [a-zA-Z0-9:-] of the attribute regular expression
IsAttrNameChar(c) == c \in UpperCase \cup LowerCase \cup Digits \cup {":", "-"}

RECURSIVE SkipName(_, _)
SkipName(s, i) == IF i <= Len(s) /\ IsAttrNameChar(s[i]) THEN SkipName(s, i + 1) ELSE i

\* /\s([a-zA-Z0-9:-]+)="([^"]*)"/ matches at position i
AttrMatchAt(s, i) ==
    /\ i <= Len(s)
    /\ IsSpace(s[i])
    /\ LET n == SkipName(s, i + 1)
       IN  /\ n > i + 1
           /\ LitAt(s, n, <<"=","\"">>)
           /\ IndexOfChar(s, "\"", n + 2) # 0

\* btnTag.matchAll(...) from position from on, as {name, value} records
RECURSIVE attrMatches(_, _)
attrMatches(s, from) ==
    IF from > Len(s) THEN <<>>
    ELSE IF AttrMatchAt(s, from)
    THEN LET n == SkipName(s, from + 1)
             q == IndexOfChar(s, "\"", n + 2)
         IN  <<[name |-> Slice(s, from + 1, n - 1), value |-> Slice(s, n + 2, q - 1)]>>
                 \o attrMatches(s, q + 1)
    ELSE attrMatches(s, from + 1)

\* .filter(({ name }) => name.toLowerCase().startsWith('data-'))
IsDataName(name) == LitAtCI(name, 1, DATA_)

RECURSIVE dataAttrList(_)
dataAttrList(ms) ==
    IF ms = <<>> THEN <<>>
    ELSE IF IsDataName(Head(ms).name)
         THEN <<Head(ms).name \o <<"=","\"">> \o escapeAttr(Head(ms).value) \o <<"\"">>>>
                  \o dataAttrList(Tail(ms))
         ELSE dataAttrList(Tail(ms))

dataAttrsOf(btnTag) == join(dataAttrList(attrMatches(btnTag, 1)), <<" ">>)

\* the isEmptyLabel branch adding its declarations only to an empty style
withEmptyLabelStyleIfNoStyle(safeStyle) ==
    IF trim(safeStyle) = <<>>
    THEN join(<<ADD_PADDING, ADD_BORDER, ADD_BACKGROUND>>, SEP)
    ELSE safeStyle

\* the isEmptyLabel branch: the style with the declarations that keep an
\* empty button visible
withEmptyLabelStyle(safeStyle) ==
    LET hasPadding == ContainsWordSpaceCharCI(safeStyle, PADDING, ":")
        hasBorder == ContainsWordSpaceCharCI(safeStyle, BORDER, ":")
        hasBg == \/ ContainsWordSpaceCharCI(safeStyle, BACKGROUND, ":")
                 \/ ContainsWordSpaceCharCI(safeStyle, BACKGROUND_COLOR, ":")
        additions ==
            (IF ~hasPadding THEN <<ADD_PADDING>> ELSE <<>>)
            \o (IF ~hasBorder THEN <<ADD_BORDER>> ELSE <<>>)
            \o (IF trim(safeStyle) = <<>> /\ ~hasBg THEN <<ADD_BACKGROUND>> ELSE <<>>)
    IN  IF additions # <<>>
        THEN join(filterBoolean(<<safeStyle, join(additions, SEP)>>), SEP)
        ELSE safeStyle

\* lines 215-234: the style of the output
safeStyleOf(btnTag, exactText) ==
    LET safeStyle == sanitizeStyle(styleAttrOf(btnTag))
        isEmptyLabel == exactText = <<>> \/ trim(exactText) = <<>>
    IN  IF isEmptyLabel THEN withEmptyLabelStyle(safeStyle) ELSE safeStyle

\* the text between the first > of a button fragment and its </button>
modelInnerText(btnTag) ==
    LET g == IndexOfChar(btnTag, ">", 1)
    IN  IF g = 0 \/ g > Len(btnTag) - Len(BUTTON_CLOSE) THEN <<>>
        ELSE Slice(btnTag, g + 1, Len(btnTag) - Len(BUTTON_CLOSE))

\* a coercer that keeps the label the model wrote
labelOfModel(btnTag, exactText) == escapeHtml(modelInnerText(btnTag))

\* line 245: the inner text of the output
labelOf(btnTag, exactText) == escapeHtml(exactText)

\* line 213 taking the last match
lastMatch(matches) == matches[Len(matches)]

\* line 213: const btnTag = matches[0]
firstMatch(matches) == matches[1]

coerceSingleButton(h, exactText) ==
    LET matches == buttonMatches(h, 1)
    IN  IF Len(matches) < 1
        THEN [thrown |-> TRUE, html |-> <<>>]
        ELSE LET btnTag == firstMatch(matches)
                 safeStyle == safeStyleOf(btnTag, exactText)
                 dataAttrs == dataAttrsOf(btnTag)
                 attrs == join(filterBoolean(<<
                              IF safeStyle # <<>>
                              THEN STYLE_Q \o safeStyle \o <<"\"">> ELSE <<>>,
                              dataAttrs,
                              TYPE_BUTTON>>), <<" ">>)
             IN  [thrown |-> FALSE,
                  html |-> BUTTON_OPEN \o <<" ">> \o attrs \o <<">">>
                               \o labelOf(btnTag, exactText) \o BUTTON_CLOSE]

\* safeHtml before coerceSingleButton has run
NotRun == [thrown |-> FALSE, html |-> <<>>]

-----------------------------------------------------------------------------
(* Token-bucket rate limiter                                                *)
(*                                                                          *)
(* tokens is a fraction in the source (max / windowMs tokens are added per  *)
(* millisecond).  The model keeps it exactly, as the integer                *)
(* tokens * windowMs, so one token is windowMs units and a full bucket is   *)
(* max * windowMs units; the rounding of floating point is not modelled.    *)
(* A bucket's updatedAt is kept as idle = Date.now() - updatedAt, the only  *)
(* way the source reads either of them, and idle stops counting at TTL + 1: *)
(* the source tells no two buckets apart that are both past their TTL.      *)

\* app.use(rateLimit({ windowMs: 60_000, max: 60 })), MAX_BUCKETS = 50_000
GlobalOptions == [max |-> 60, windowMs |-> 60000, MAX_BUCKETS |-> 50000]
\* const generateLimiter = rateLimit({ windowMs: 60_000, max: 20 })
GenerateOptions == [max |-> 20, windowMs |-> 60000, MAX_BUCKETS |-> 50000]

NoBucket == [tokens |-> -1, idle |-> -1]

OneToken(o) == o.windowMs
Full(o) == o.max * o.windowMs
TTL(o) == o.windowMs * 5

CeilDiv(a, b) == (a + b - 1) \div b

\* line 60 without Math.min
refillUnclamped(o, tokens, elapsed) == tokens + elapsed * o.max

\* line 60 with the refill rate taken per second
refillPerSecond(o, tokens, elapsed) ==
    IF tokens + (elapsed \div 1000) * o.max < Full(o)
    THEN tokens + (elapsed \div 1000) * o.max ELSE Full(o)

\* line 60: Math.min(max, b.tokens + elapsed * refillRate)
refill(o, tokens, elapsed) ==
    IF tokens + elapsed * o.max < Full(o) THEN tokens + elapsed * o.max ELSE Full(o)

\* line 64 with Math.floor
retrySecFloor(o, tokens) == (OneToken(o) - tokens) \div (o.max * 1000)

\* line 64: Math.ceil((1 - b.tokens) / refillRate / 1000)
retrySec(o, tokens) == CeilDiv(OneToken(o) - tokens, o.max * 1000)

\* the number of buckets in a table
Size(table) == Cardinality({k \in DOMAIN table : table[k] # NoBucket})

\* tooMany(res, retryAfterSec)
tooMany(table, retryAfterSec) ==
    [buckets |-> table, admitted |-> FALSE, status |-> 429, retryAfter |-> retryAfterSec,
     remaining |-> -1, refilled |-> -1]

\* line 63 as if (b.tokens < 0)
rejectsBelowZero(o, tokens) == tokens < 0

\* line 63: if (b.tokens < 1)
rejects(o, tokens) == tokens < OneToken(o)

\* line 55: buckets.size > MAX_BUCKETS
tableFull(o, table) == Size(table) > o.MAX_BUCKETS

\* limiter(req, res, next) writing the bucket back as it was refilled,
\* without the token it has given out
limiterLosingDecrement(o, table, k) ==
    LET created == table[k] = NoBucket
        b == IF created THEN [tokens |-> Full(o), idle |-> 0] ELSE table[k]
        tokens == refill(o, b.tokens, b.idle)
    IN  IF rejects(o, tokens)
        THEN [tooMany([table EXCEPT ![k] = [tokens |-> tokens, idle |-> 0]],
                      retrySec(o, tokens))
                EXCEPT !.refilled = tokens]
        ELSE [buckets |-> [table EXCEPT ![k] = [tokens |-> tokens, idle |-> 0]],
              admitted |-> TRUE,
              status |-> 0,
              retryAfter |-> 0,
              remaining |-> (tokens - OneToken(o)) \div OneToken(o),
              refilled |-> tokens]

\* limiter(req, res, next) of a limiter with options o and bucket table
\* table, for a request with key k: the table afterwards and the outcome
limiter(o, table, k) ==
    IF table[k] = NoBucket /\ tableFull(o, table)
    THEN tooMany(table, 60)
    ELSE LET created == table[k] = NoBucket
             b == IF created THEN [tokens |-> Full(o), idle |-> 0] ELSE table[k]
             elapsed == b.idle
             tokens == refill(o, b.tokens, elapsed)
         IN  IF rejects(o, tokens)
             THEN [tooMany([table EXCEPT ![k] = [tokens |-> tokens, idle |-> 0]],
                           retrySec(o, tokens))
                     EXCEPT !.refilled = tokens]
             ELSE [buckets |-> [table EXCEPT ![k] = [tokens |-> tokens - OneToken(o), idle |-> 0]],
                   admitted |-> TRUE,
                   status |-> 0,
                   retryAfter |-> 0,
                   remaining |-> (tokens - OneToken(o)) \div OneToken(o),
                   refilled |-> tokens]

\* the setInterval callback deleting every bucket, stale or not
sweepEveryBucket(o, table) == [k \in DOMAIN table |-> NoBucket]

\* the setInterval callback of lines 45-48
sweep(o, table) ==
    [k \in DOMAIN table |-> IF table[k] # NoBucket /\ table[k].idle > TTL(o)
                            THEN NoBucket ELSE table[k]]

\* d more milliseconds on the clock
age(o, table, d) ==
    [k \in DOMAIN table |->
        IF table[k] = NoBucket THEN NoBucket
        ELSE [table[k] EXCEPT !.idle = IF @ + d > TTL(o) THEN TTL(o) + 1 ELSE @ + d]]

-----------------------------------------------------------------------------
(* Manual validation and normalization (server.js lines 85-104) *)

\* a request field: null (or undefined), or a string
Null == [null |-> TRUE, s |-> <<>>]
Str(s) == [null |-> FALSE, s |-> s]
\* a value is truthy unless it is null or the empty string
Truthy(v) == ~v.null /\ v.s # <<>>
\* String(v || '')
StringOr(v) == IF Truthy(v) THEN v.s ELSE <<>>

\* s.slice(0, n)
slice(s, n) == SubSeq(s, 1, IF Len(s) < n THEN Len(s) ELSE n)

\* the compatibility decompositions of the characters outside ASCII that the
\* requests use: fullwidth < and (, and the ligature fi
nfkcChar(c) ==
    IF c = "U+FF1C" THEN <<"<">>
    ELSE IF c = "U+FF08" THEN <<"(">>
    ELSE IF c = "U+FB01" THEN <<"f","i">>
    ELSE <<c>>

\* s.normalize('NFKC')
normalize(s) == Flatten([i \in 1..Len(s) |-> nfkcChar(s[i])])

\* the class [\u0000-\u001F\u007F]
IsControl(c) == c \in {"\t", "\n", "\r", "U+0000", "U+007F"}

replaceControl(s) == [i \in 1..Len(s) |-> IF IsControl(s[i]) THEN " " ELSE s[i]]

norm(v) == trim(replaceControl(normalize(StringOr(v))))

SCRIPT == <<"s","c","r","i","p","t">>
ON == <<"o","n">>
DATA_COLON == <<"d","a","t","a",":">>
TEXT_HTML == <<"t","e","x","t","/","h","t","m","l">>
URL_PAREN == <<"u","r","l","(">>

RECURSIVE SkipWord(_, _)
SkipWord(s, i) == IF i <= Len(s) /\ IsWord(s[i]) THEN SkipWord(s, i + 1) ELSE i

\* /<\s*script/i
denyScript(s) == \E i \in 1..Len(s) : s[i] = "<" /\ LitAtCI(s, SkipSpace(s, i + 1), SCRIPT)
\* /on\w+\s*=/i
denyHandler(s) ==
    \E i \in 1..Len(s) :
        /\ LitAtCI(s, i, ON)
        /\ LET j == SkipWord(s, i + 2)
               k == SkipSpace(s, j)
           IN  j > i + 2 /\ k <= Len(s) /\ s[k] = "="
\* /javascript:/i
denyJavascript(s) == ContainsCI(s, JAVASCRIPT_COLON)
\* /data:\s*text\/html/i
denyDataHtml(s) ==
    \E i \in 1..Len(s) : LitAtCI(s, i, DATA_COLON) /\ LitAtCI(s, SkipSpace(s, i + 5), TEXT_HTML)
\* /url\(/i
denyUrl(s) == ContainsCI(s, URL_PAREN)
\* /expression\s*\(/i
denyExpression(s) == ContainsLitSpaceCharCI(s, EXPRESSION, "(")

\* some rx of DENY tests true on s
DENY(s) ==
    \/ denyScript(s)
    \/ denyHandler(s)
    \/ denyJavascript(s)
    \/ denyDataHtml(s)
    \/ denyUrl(s)
    \/ denyExpression(s)

Clean(v) == [thrown |-> FALSE, v |-> v]

\* assertClean with the deny-list tested on the value as it came, before norm
assertCleanAsReceived(v, maxLen) ==
    IF v.null THEN Clean(v)
    ELSE [thrown |-> DENY(v.s), v |-> Str(slice(norm(v), maxLen))]

assertClean(v, maxLen) ==
    IF v.null THEN Clean(v)
    ELSE LET s == slice(norm(v), maxLen)
         IN  [thrown |-> DENY(s), v |-> Str(s)]

clampText(t) ==
    LET s == StringOr(t)
    IN  slice([i \in 1..Len(s) |-> IF s[i] \in {"\n", "\r", "\t"} THEN " " ELSE s[i]], 200)

-----------------------------------------------------------------------------
(* POST /api/generate (server.js lines 142-206) *)

NoBody == [component |-> "", text |-> Null, color |-> Null, size |-> Null,
           styleVariant |-> Null]
NotSent == [called |-> FALSE, text |-> Null, color |-> Null, size |-> Null, style |-> Null]
NoResponse == [status |-> 0, ok |-> FALSE, error |-> "", retryAfter |-> 0, html |-> <<>>]

\* the catch block: res.status(400).json({ ok: false, error: e.message })
BadRequest(message) == [NoResponse EXCEPT !.status = 400, !.error = message]
\* tooMany(res, retryAfterSec)
TooManyRequests(retryAfterSec) ==
    [NoResponse EXCEPT !.status = 429, !.error = "Too Many Requests",
                       !.retryAfter = retryAfterSec]
\* res.json({ ok: true, html: safeHtml, ... })
Ok(safeHtml) == [NoResponse EXCEPT !.status = 200, !.ok = TRUE, !.html = safeHtml]

\* lines 152-153 with the raw styleVariant in the place of styleClean
descriptorWinsRaw(styleVariant, styleClean) == Truthy(styleVariant)

\* the test "styleClean ?" of lines 152-153
descriptorWins(styleVariant, styleClean) == Truthy(styleClean)

\* lines 144-166: the handler up to the call of the backend; what it throws,
\* or the JSON it puts into the user message
validate(body) ==
    LET userText == Str(clampText(body.text))
        styleClean == IF Truthy(body.styleVariant)
                      THEN assertClean(body.styleVariant, 80) ELSE Clean(Null)
        textClean == assertClean(userText, 200)
        wins == descriptorWins(body.styleVariant, styleClean.v)
        colorClean == IF wins THEN Clean(Null)
                      ELSE IF ~body.color.null THEN assertClean(body.color, 50)
                      ELSE Clean(Null)
        sizeClean == IF wins THEN Clean(Null)
                     ELSE IF ~body.size.null THEN assertClean(body.size, 50)
                     ELSE Clean(Null)
        thrown(message) == [thrown |-> TRUE, message |-> message, sent |-> NotSent]
    IN  IF body.component # "button" THEN thrown("component must be \"button\"")
        ELSE IF styleClean.thrown THEN thrown("Rejected styleVariant")
        ELSE IF textClean.thrown THEN thrown("Rejected text")
        ELSE IF colorClean.thrown THEN thrown("Rejected color")
        ELSE IF sizeClean.thrown THEN thrown("Rejected size")
        ELSE [thrown |-> FALSE, message |-> "",
              sent |-> [called |-> TRUE,
                        text |-> textClean.v,
                        color |-> colorClean.v,
                        size |-> sizeClean.v,
                        style |-> IF Truthy(styleClean.v) THEN styleClean.v ELSE Null]]

NoReply == [kind |-> "none", message |-> "", html |-> <<>>]
\* one request: where its handling stands (pc), its body, which limiters
\* have admitted it, the tokens each limiter found in the client's bucket
\* once refilled and the tokens it left there (-1: the limiter did not
\* run), what the handler sent to the backend and how often it called it,
\* what the backend answered, and the response
NotAdmitted == [global |-> FALSE, generate |-> FALSE]
NotRefilled == [global |-> -1, generate |-> -1]
ServerOff == [pc |-> "idle", req |-> NoBody,
              admitted |-> NotAdmitted, found |-> NotRefilled, left |-> NotRefilled,
              sent |-> NotSent, calls |-> 0, reply |-> NoReply,
              res |-> NoResponse]
\* no request in flight, and no time gone by
NoneInFlight == [slots |-> <<>>, elapsed |-> 0]
\* no table but the limiter's own
NoOutcome == [admitted |-> FALSE, status |-> 0, retryAfter |-> 0, remaining |-> -1]
NoShadow == [table |-> <<>>, res |-> NoOutcome, recreated |-> FALSE, stale |-> -1,
             removed |-> {}]
\* generateButton has not been called
NoCall == [pc |-> "idle", timer |-> -1, waited |-> 0, calls |-> 0,
           outcome |-> "none", name |-> "", message |-> "", retryAfter |-> 0,
           html |-> <<>>]
ServerIdle ==
    srv = ServerOff /\ inflight = NoneInFlight /\ unswept = NoShadow /\ gen = NoCall

-----------------------------------------------------------------------------
(* One limiter under requests, the clock and its sweep *)

NumKeys == 3
Keys == 1..NumKeys

\* the limiters of LimiterSpec: small windows and a small table, so that the
\* fractions of a token, the clamp, the TTL and the table's cap are all reached
TestOptions == {
    [max |-> 2, windowMs |-> 3, MAX_BUCKETS |-> 1],
    [max |-> 3, windowMs |-> 2, MAX_BUCKETS |-> 1] }

NoRes == [key |-> 0, admitted |-> FALSE, status |-> 0, retryAfter |-> 0, remaining |-> -1,
          refilled |-> -1, streak |-> 0, burst |-> 0, from |-> -1]
NoBurst == [n |-> 0, from |-> -1]
WatchOff == [on |-> FALSE, count |-> 0, admitted |-> 0, since |-> 0]

\* how long the observer follows a client
WatchMs == 1500
\* how many requests of a client the observer counts: one more than the
\* global limiter's capacity
WatchCount == GlobalOptions.max + 1

CoercerIdle ==
    /\ style = <<>>
    /\ html = <<>>
    /\ label = <<>>
    /\ out = NotRun
    /\ again = NotRun
    /\ cpc = "off"
    /\ pieces = 0

LimiterIdle ==
    /\ opts = <<>>
    /\ buckets = <<>>
    /\ lastRes = NoRes
    /\ streak = <<>>
    /\ burst = <<>>
    /\ watch = WatchOff

\* rateLimit(options): one limiter with an empty Map
StartLimiter(id, o, keys) ==
    /\ opts = [i \in {id} |-> o]
    /\ buckets = [i \in {id} |-> [k \in keys |-> NoBucket]]
    /\ lastRes = NoRes
    /\ streak = [k \in keys |-> 0]
    /\ burst = [k \in keys |-> NoBurst]
    /\ watch = WatchOff

LimiterInit ==
    /\ CoercerIdle
    /\ ServerIdle
    /\ \E o \in TestOptions : StartLimiter("test", o, Keys)

\* Date.now() moves on by d ms; the response of the last request is out
Tick(d) ==
    /\ d > 0
    /\ buckets' = [id \in DOMAIN buckets |-> age(opts[id], buckets[id], d)]
    /\ lastRes' = NoRes
    /\ streak' = [k \in DOMAIN streak |-> 0]
    /\ burst' = [k \in DOMAIN burst |-> NoBurst]
    /\ watch' = IF ~watch.on \/ watch.count = 0 THEN watch
                ELSE IF watch.since + d > WatchMs THEN WatchOff
                ELSE [watch EXCEPT !.since = @ + d]
    /\ UNCHANGED opts
    /\ UNCHANGED cvars
    /\ UNCHANGED svars

\* a request with key k reaches limiter id
Request(id, k) ==
    LET o == opts[id]
        r == limiter(o, buckets[id], k)
        b == buckets[id][k]
        \* the first request of this instant on a bucket idle for a full window
        starts == b # NoBucket /\ b.idle >= o.windowMs
        n == IF starts THEN 1
             ELSE IF burst[k].n > 0 /\ burst[k].n <= o.max THEN burst[k].n + 1
             ELSE 0
        from == IF starts THEN b.tokens ELSE burst[k].from
    IN  /\ buckets' = [buckets EXCEPT ![id] = r.buckets]
        /\ lastRes' = [key |-> k, admitted |-> r.admitted, status |-> r.status,
                       retryAfter |-> r.retryAfter, remaining |-> r.remaining,
                       refilled |-> r.refilled,
                       streak |-> streak[k], burst |-> n, from |-> IF n = 0 THEN -1 ELSE from]
        /\ streak' = [streak EXCEPT ![k] = IF r.admitted THEN @ + 1 ELSE 0]
        /\ burst' = [burst EXCEPT ![k] = IF n = 0 THEN NoBurst ELSE [n |-> n, from |-> from]]
        /\ watch' = IF ~watch.on \/ k # 1 THEN watch
                    ELSE IF watch.count >= WatchCount THEN WatchOff
                    ELSE [watch EXCEPT !.count = @ + 1,
                                       !.admitted = IF r.admitted THEN @ + 1 ELSE @]
        /\ UNCHANGED opts
        /\ UNCHANGED cvars
        /\ UNCHANGED svars

\* the sweep timer of limiter id fires
Sweep(id) ==
    /\ buckets' = [buckets EXCEPT ![id] = sweep(opts[id], @)]
    /\ lastRes' = NoRes
    /\ UNCHANGED <<opts, streak, burst, watch>>
    /\ UNCHANGED cvars
    /\ UNCHANGED svars

LimiterSteps(o) == {1, o.windowMs, TTL(o) + 1}

LimiterNext ==
    \/ \E d \in LimiterSteps(opts["test"]) : Tick(d)
    \/ \E k \in Keys : Request("test", k)
    \/ Sweep("test")

LimiterSpec == LimiterInit /\ [][LimiterNext]_vars

-----------------------------------------------------------------------------
(* One limiter next to a table that is never swept (SweepSpec): every       *)
(* request is put to the limiter and, with the same key at the same time,   *)
(* to the same code on a table that the sweep timer never touches           *)

SweepKeys == 1..2

\* the limiters of LimiterSpec with room in the table for every key
SweepOptions == {[o EXCEPT !.MAX_BUCKETS = GlobalOptions.MAX_BUCKETS] : o \in TestOptions}

SweepInit ==
    /\ CoercerIdle
    /\ srv = ServerOff
    /\ inflight = NoneInFlight
    /\ \E o \in SweepOptions : StartLimiter("test", o, SweepKeys)
    /\ unswept = [NoShadow EXCEPT !.table = [k \in SweepKeys |-> NoBucket]]
    /\ gen = NoCall

\* Date.now() moves on by d ms, for both tables
TickBoth(d) ==
    /\ d > 0
    /\ buckets' = [buckets EXCEPT !["test"] = age(opts["test"], @, d)]
    /\ unswept' = [NoShadow EXCEPT !.table = age(opts["test"], unswept.table, d)]
    /\ lastRes' = NoRes
    /\ UNCHANGED <<opts, streak, burst, watch>>
    /\ UNCHANGED cvars
    /\ UNCHANGED <<srv, inflight, gen>>

\* a request with key k, put to the limiter and to the unswept table
RequestBoth(k) ==
    LET o == opts["test"]
        r == limiter(o, buckets["test"], k)
        u == limiter(o, unswept.table, k)
    IN  /\ buckets' = [buckets EXCEPT !["test"] = r.buckets]
        /\ lastRes' = [NoRes EXCEPT !.key = k, !.admitted = r.admitted, !.status = r.status,
                                    !.retryAfter = r.retryAfter, !.remaining = r.remaining,
                                    !.refilled = r.refilled]
        /\ unswept' = [table |-> u.buckets,
                       res |-> [admitted |-> u.admitted, status |-> u.status,
                                retryAfter |-> u.retryAfter, remaining |-> u.remaining],
                       recreated |-> buckets["test"][k] = NoBucket
                                         /\ unswept.table[k] # NoBucket,
                       stale |-> unswept.table[k].tokens,
                       removed |-> {}]
        /\ UNCHANGED <<opts, streak, burst, watch>>
        /\ UNCHANGED cvars
        /\ UNCHANGED <<srv, inflight, gen>>

\* the sweep timer fires: the limiter's table is swept, the other is not
SweepOne ==
    LET o == opts["test"]
        swept == sweep(o, buckets["test"])
    IN  /\ buckets' = [buckets EXCEPT !["test"] = swept]
        /\ unswept' = [NoShadow EXCEPT
                          !.table = unswept.table,
                          !.removed = {buckets["test"][k].idle :
                                          k \in {x \in SweepKeys :
                                                    /\ buckets["test"][x] # NoBucket
                                                    /\ swept[x] = NoBucket}}]
        /\ lastRes' = NoRes
        /\ UNCHANGED <<opts, streak, burst, watch>>
        /\ UNCHANGED cvars
        /\ UNCHANGED <<srv, inflight, gen>>

SweepNext ==
    \/ \E d \in LimiterSteps(opts["test"]) : TickBoth(d)
    \/ \E k \in SweepKeys : RequestBoth(k)
    \/ SweepOne

SweepSpec == SweepInit /\ [][SweepNext]_vars

-----------------------------------------------------------------------------
(* The global limiter and one client (GlobalSpec) *)

Client == 1

GlobalInit ==
    /\ CoercerIdle
    /\ ServerIdle
    /\ StartLimiter("global", GlobalOptions, {Client})

\* the observer starts to count the client's requests, from its next one on
StartWatch ==
    /\ ~watch.on
    /\ watch' = [WatchOff EXCEPT !.on = TRUE]
    /\ lastRes' = NoRes
    /\ UNCHANGED <<opts, buckets, streak, burst>>
    /\ UNCHANGED cvars
    /\ UNCHANGED svars

GlobalSteps == {500, 1000, 60000}

GlobalNext ==
    \/ \E d \in GlobalSteps : Tick(d)
    \/ Request("global", Client)
    \/ Sweep("global")
    \/ StartWatch

GlobalSpec == GlobalInit /\ [][GlobalNext]_vars

-----------------------------------------------------------------------------
(* One limiter and an observer of one key (RateSpec): from any moment on,   *)
(* the observer follows the clock and counts the requests of the key that   *)
(* the limiter admits                                                       *)

\* the longest interval the observer follows, in windows: more than the TTL,
\* so that the key's bucket can be swept and created again inside it
MaxWindows == 6

NotObserving == [on |-> FALSE, admitted |-> 0, since |-> 0, recreated |-> FALSE]

RateInit ==
    /\ CoercerIdle
    /\ ServerIdle
    /\ \E o \in SweepOptions :
          /\ opts = [i \in {"test"} |-> o]
          /\ buckets = [i \in {"test"} |-> [k \in SweepKeys |-> NoBucket]]
    /\ lastRes = NoRes
    /\ streak = [k \in SweepKeys |-> 0]
    /\ burst = [k \in SweepKeys |-> NoBurst]
    /\ watch = NotObserving

\* the interval starts here
Observe ==
    /\ ~watch.on
    /\ watch' = [NotObserving EXCEPT !.on = TRUE]
    /\ lastRes' = NoRes
    /\ UNCHANGED <<opts, buckets, streak, burst>>
    /\ UNCHANGED cvars
    /\ UNCHANGED svars

\* Date.now() moves on by d ms; an interval that has reached its longest ends
RateTick(d) ==
    /\ d > 0
    /\ buckets' = [buckets EXCEPT !["test"] = age(opts["test"], @, d)]
    /\ watch' = IF ~watch.on THEN watch
                ELSE IF watch.since + d > MaxWindows * opts["test"].windowMs
                     THEN NotObserving
                     ELSE [watch EXCEPT !.since = @ + d]
    /\ lastRes' = NoRes
    /\ UNCHANGED <<opts, streak, burst>>
    /\ UNCHANGED cvars
    /\ UNCHANGED svars

\* a request with key k reaches the limiter
RateRequest(k) ==
    LET o == opts["test"]
        r == limiter(o, buckets["test"], k)
        counted == watch.on /\ k = Client
    IN  /\ buckets' = [buckets EXCEPT !["test"] = r.buckets]
        /\ lastRes' = [NoRes EXCEPT !.key = k, !.admitted = r.admitted, !.status = r.status,
                                    !.retryAfter = r.retryAfter, !.remaining = r.remaining,
                                    !.refilled = r.refilled]
        /\ watch' = IF ~counted THEN watch
                    ELSE [watch EXCEPT
                             !.admitted = IF r.admitted THEN @ + 1 ELSE @,
                             !.recreated = @ \/ (watch.admitted > 0
                                                  /\ buckets["test"][k] = NoBucket)]
        /\ UNCHANGED <<opts, streak, burst>>
        /\ UNCHANGED cvars
        /\ UNCHANGED svars

RateNext ==
    \/ Observe
    \/ \E d \in LimiterSteps(opts["test"]) : RateTick(d)
    \/ \E k \in SweepKeys : RateRequest(k)
    \/ Sweep("test")

RateSpec == RateInit /\ [][RateNext]_vars

-----------------------------------------------------------------------------
(* One limiter and a client that waits as it is told (RetrySpec): an        *)
(* observer follows a key from a request that its bucket has rejected, and  *)
(* notes what becomes of the key's next request when it comes Retry-After   *)
(* seconds later or more                                                    *)

\* a limiter whose Retry-After is one second or two, with a table that is
\* full with one bucket in it
RetryOptions == { [max |-> 2, windowMs |-> 3000, MAX_BUCKETS |-> 0] }

RetrySteps(o) == {500, 1000, TTL(o) + 1}

NotWaiting == [key |-> 0, left |-> 0, retryAfter |-> 0, retried |-> FALSE,
               admitted |-> FALSE, gone |-> FALSE, full |-> FALSE]

RetryInit ==
    /\ CoercerIdle
    /\ ServerIdle
    /\ \E o \in RetryOptions :
          /\ opts = [i \in {"test"} |-> o]
          /\ buckets = [i \in {"test"} |-> [k \in SweepKeys |-> NoBucket]]
    /\ lastRes = NoRes
    /\ streak = [k \in SweepKeys |-> 0]
    /\ burst = [k \in SweepKeys |-> NoBurst]
    /\ watch = NotWaiting

\* Date.now() moves on by d ms
RetryTick(d) ==
    /\ d > 0
    /\ buckets' = [buckets EXCEPT !["test"] = age(opts["test"], @, d)]
    /\ watch' = IF watch.key = 0 \/ watch.retried THEN NotWaiting
                ELSE [watch EXCEPT !.left = IF @ > d THEN @ - d ELSE 0]
    /\ lastRes' = NoRes
    /\ UNCHANGED <<opts, streak, burst>>
    /\ UNCHANGED cvars
    /\ UNCHANGED svars

\* a request with key k reaches the limiter
RetryRequest(k) ==
    LET o == opts["test"]
        r == limiter(o, buckets["test"], k)
        \* rejected by line 63, with the Retry-After of line 64
        byBucket == ~r.admitted /\ r.refilled >= 0
        waiting == watch.key # 0 /\ ~watch.retried
        told == [NotWaiting EXCEPT !.key = k, !.left = r.retryAfter * 1000,
                                   !.retryAfter = r.retryAfter]
    IN  /\ buckets' = [buckets EXCEPT !["test"] = r.buckets]
        /\ lastRes' = [NoRes EXCEPT !.key = k, !.admitted = r.admitted, !.status = r.status,
                                    !.retryAfter = r.retryAfter, !.remaining = r.remaining,
                                    !.refilled = r.refilled]
        /\ watch' = IF waiting /\ watch.key # k THEN watch
                    ELSE IF waiting /\ watch.left = 0
                    THEN [watch EXCEPT !.retried = TRUE,
                                       !.admitted = r.admitted,
                                       !.gone = buckets["test"][k] = NoBucket,
                                       !.full = tableFull(o, buckets["test"])]
                    ELSE IF byBucket THEN told
                    ELSE NotWaiting
        /\ UNCHANGED <<opts, streak, burst>>
        /\ UNCHANGED cvars
        /\ UNCHANGED svars

RetryNext ==
    \/ \E d \in RetrySteps(opts["test"]) : RetryTick(d)
    \/ \E k \in SweepKeys : RetryRequest(k)
    \/ Sweep("test")

RetrySpec == RetryInit /\ [][RetryNext]_vars

-----------------------------------------------------------------------------
(* The server under one client's requests (ServerSpec): a request passes    *)
(* the global limiter, then generateLimiter, then the handler, which calls  *)
(* the generation backend and answers when that returns.  The middleware    *)
(* and the handler up to its await run in one turn of the event loop.       *)

\* the field values of the requests and the replies of the backend
TEXT1 == <<" ","O","k","\t","g","o"," ">>
COLOR1 == <<"#","f","0","0">>
SIZE1 == <<"b","i","g">>
STYLE1 == <<"\n"," ","\t">>
STYLE2 == <<"m","o","d","e","r","n">>
TEXT3 == <<"<","s","c","r","i","p","t">>
COLOR2 == <<"U","R","L","(","x",")">>
COLOR3 == <<"d","a","t","a",":","\t","t","e","x","t","/","h","t","m","l">>
SIZE2 == <<"J","a","v","a","S","c","r","i","p","t",":","1">>
SIZE3 == <<"e","x","p","r","e","s","s","i","o","n"," "," ","(","1",")">>
STYLE3 == <<"c","o","n","v","e","r","s","i","o","n"," ","=","1">>
REPLY1 == <<"<","b","u","t","t","o","n"," ","s","t","y","l","e","=","\"","c","o","l","o","r",":","r","e","d","\""," ","o","n","c","l","i","c","k","=","\"","x","(",")","\"",">","G","o","<","/","b","u","t","t","o","n",">">>
REPLY2 == <<"S","o","r","r","y">>
REPLY3 == <<"T","w","o",":"," ","<","B","U","T","T","O","N"," ","s","t","y","l","e","=","\"","c","o","l","o","r",":","r","e","d","\""," ","d","a","t","a","-","a","=","\"","1","\"",">","A","<","/","B","u","t","t","o","n",">","<","b","u","t","t","o","n"," ","s","t","y","l","e","=","\"","w","i","d","t","h",":","1","p","x","\""," ","d","a","t","a","-","b","=","\"","2","\"",">","B","<","/","b","u","t","t","o","n",">">>
REPLY4 == <<"<","/","b","u","t","t","o","n",">","<","b","u","t","t","o","n"," ","s","t","y","l","e","=","\"","c","o","l","o","r",":","r","e","d","\"",">","G","o">>
TEXT2 == <<"U+FF1C","S","c","r","i","p","t",">">>

Pad(n) == [i \in 1..n |-> "a"]

\* field values that pass the deny-list
PlainTexts == { Null, Str(TEXT1) }
PlainColors == { Null, Str(COLOR1) }
PlainSizes == { Null, Str(SIZE1) }
PlainStyles == { Null, Str(STYLE1), Str(STYLE2) }

\* field values written to match it
HostileTexts == { Str(TEXT2), Str(Pad(197) \o TEXT3) }
HostileColors == { Str(COLOR2), Str(COLOR3) }
HostileSizes == { Str(SIZE2), Str(SIZE3) }
HostileStyles == { Str(STYLE3), Str(Pad(78) \o URL_PAREN) }

Body(text, color, size, styleVariant) ==
    [component |-> "button", text |-> text, color |-> color, size |-> size,
     styleVariant |-> styleVariant]

\* the requests of the client: any plain fields, or one hostile field among
\* plain ones, or another component
Bodies ==
    { Body(x, c, z, v) : x \in PlainTexts \cup HostileTexts, c \in PlainColors,
                         z \in PlainSizes, v \in PlainStyles }
    \cup { Body(x, c, z, v) : x \in PlainTexts, c \in HostileColors,
                              z \in PlainSizes, v \in PlainStyles }
    \cup { Body(x, c, z, v) : x \in PlainTexts, c \in PlainColors,
                              z \in HostileSizes, v \in PlainStyles }
    \cup { Body(x, c, z, v) : x \in PlainTexts, c \in PlainColors,
                              z \in PlainSizes, v \in HostileStyles }
    \cup { [Body(Str(TEXT1), Null, Null, Null) EXCEPT !.component = "card"] }

\* what client.responses.create comes back with: a rejection, an empty
\* output_text, or JSON with an html field
BackendResults == {
    [kind |-> "error", message |-> "Connection error.", html |-> <<>>],
    [kind |-> "empty", message |-> "", html |-> <<>>],
    [kind |-> "malformed", message |-> "Unexpected end of JSON input", html |-> <<>>],
    [kind |-> "json", message |-> "", html |-> REPLY1],
    [kind |-> "json", message |-> "", html |-> REPLY2],
    [kind |-> "json", message |-> "", html |-> REPLY3],
    [kind |-> "json", message |-> "", html |-> REPLY4] }

ServerInit ==
    /\ CoercerIdle
    /\ opts = [id \in {"global", "generate"} |->
                  IF id = "global" THEN GlobalOptions ELSE GenerateOptions]
    /\ buckets = [id \in {"global", "generate"} |-> [k \in {Client} |-> NoBucket]]
    /\ lastRes = NoRes
    /\ streak = [k \in {Client} |-> 0]
    /\ burst = [k \in {Client} |-> NoBurst]
    /\ watch = WatchOff
    /\ srv = ServerOff
    /\ inflight = NoneInFlight
    /\ unswept = NoShadow
    /\ gen = NoCall

\* the client posts a request
Post(body) ==
    /\ srv.pc = "idle"
    /\ srv' = [ServerOff EXCEPT !.pc = "received", !.req = body]
    /\ UNCHANGED lvars
    /\ UNCHANGED cvars
    /\ UNCHANGED <<inflight, unswept, gen>>

\* the middleware and the handler with the validation in front of the
\* limiters
dispatchValidatingFirst(s, bs) ==
    LET g == limiter(opts["global"], bs["global"], Client)
        e == limiter(opts["generate"], bs["generate"], Client)
        h == validate(s.req)
        afterG == [bs EXCEPT !["global"] = g.buckets]
        afterE == [afterG EXCEPT !["generate"] = e.buckets]
        byG == [s EXCEPT !.found.global = g.refilled,
                         !.left.global = g.buckets[Client].tokens,
                         !.admitted.global = g.admitted]
        byE == [byG EXCEPT !.found.generate = e.refilled,
                           !.left.generate = e.buckets[Client].tokens,
                           !.admitted.generate = e.admitted]
    IN  IF h.thrown
        THEN [buckets |-> bs,
              srv |-> [s EXCEPT !.pc = "done", !.res = BadRequest(h.message)]]
        ELSE IF ~g.admitted
        THEN [buckets |-> afterG,
              srv |-> [byG EXCEPT !.pc = "done", !.res = TooManyRequests(g.retryAfter)]]
        ELSE IF ~e.admitted
        THEN [buckets |-> afterE,
              srv |-> [byE EXCEPT !.pc = "done", !.res = TooManyRequests(e.retryAfter)]]
        ELSE [buckets |-> afterE,
              srv |-> [byE EXCEPT !.pc = "awaiting", !.sent = h.sent, !.calls = 1]]

\* lines 81, 142-182: express runs the global limiter, then generateLimiter,
\* then the handler up to its await, in one turn; s is the request and bs
\* the bucket tables of the two limiters
dispatch(s, bs) ==
    LET g == limiter(opts["global"], bs["global"], Client)
        e == limiter(opts["generate"], bs["generate"], Client)
        h == validate(s.req)
        afterG == [bs EXCEPT !["global"] = g.buckets]
        afterE == [afterG EXCEPT !["generate"] = e.buckets]
        byG == [s EXCEPT !.found.global = g.refilled,
                         !.left.global = g.buckets[Client].tokens,
                         !.admitted.global = g.admitted]
        byE == [byG EXCEPT !.found.generate = e.refilled,
                           !.left.generate = e.buckets[Client].tokens,
                           !.admitted.generate = e.admitted]
    IN  IF ~g.admitted
        THEN [buckets |-> afterG,
              srv |-> [byG EXCEPT !.pc = "done", !.res = TooManyRequests(g.retryAfter)]]
        ELSE IF ~e.admitted
        THEN [buckets |-> afterE,
              srv |-> [byE EXCEPT !.pc = "done", !.res = TooManyRequests(e.retryAfter)]]
        ELSE IF h.thrown
        THEN [buckets |-> afterE,
              srv |-> [byE EXCEPT !.pc = "done", !.res = BadRequest(h.message)]]
        ELSE [buckets |-> afterE,
              srv |-> [byE EXCEPT !.pc = "awaiting", !.sent = h.sent, !.calls = 1]]

Dispatch ==
    /\ srv.pc = "received"
    /\ LET d == dispatch(srv, buckets)
       IN  buckets' = d.buckets /\ srv' = d.srv
    /\ UNCHANGED <<opts, lastRes, streak, burst, watch>>
    /\ UNCHANGED cvars
    /\ UNCHANGED <<inflight, unswept, gen>>

\* how often a handler that retried would call the backend
MaxCalls == 3

\* the handler calling the backend again when the call has failed
resumeRetrying(s, r) ==
    IF r.kind \in {"error", "empty", "malformed"} /\ s.calls < MaxCalls
    THEN [s EXCEPT !.calls = @ + 1]
    ELSE [s EXCEPT !.pc = "done", !.reply = r, !.res = BadRequest(r.message)]

\* lines 184-205: the handler after its await, when the backend's promise is
\* settled: the await throws, or output_text is empty, or JSON.parse throws,
\* or coerceSingleButton gets data.html; the catch block answers with the
\* message of what was thrown
resume(s, r) ==
    [s EXCEPT
        !.pc = "done",
        !.reply = r,
        !.res = IF r.kind = "error" THEN BadRequest(r.message)
                ELSE IF r.kind = "empty" THEN BadRequest("Empty model response")
                ELSE IF r.kind = "malformed" THEN BadRequest(r.message)
                ELSE LET c == coerceSingleButton(r.html, s.sent.text.s)
                     IN  IF c.thrown
                         THEN BadRequest("Model did not return a <button>")
                         ELSE Ok(c.html)]

BackendReturn(r) ==
    /\ srv.pc = "awaiting"
    /\ srv' = resume(srv, r)
    /\ UNCHANGED lvars
    /\ UNCHANGED cvars
    /\ UNCHANGED <<inflight, unswept, gen>>

\* the response is out and the client may post again
Close ==
    /\ srv.pc = "done"
    /\ srv' = ServerOff
    /\ UNCHANGED lvars
    /\ UNCHANGED cvars
    /\ UNCHANGED <<inflight, unswept, gen>>

\* the clock moves while no request is being handled
ServerSteps == { TTL(GenerateOptions) + 1 }

ServerNext ==
    \/ \E body \in Bodies : Post(body)
    \/ Dispatch
    \/ \E r \in BackendResults : BackendReturn(r)
    \/ Close
    \/ srv.pc = "idle" /\ \E d \in ServerSteps : Tick(d)
    \/ srv.pc = "idle" /\ \E id \in DOMAIN buckets : Sweep(id)

ServerSpec == ServerInit /\ [][ServerNext]_vars

-----------------------------------------------------------------------------
(* Requests of one client handled at the same time (ConcurrentSpec): Node   *)
(* runs one callback at a time, so a request goes from the global limiter   *)
(* to the await of the backend call in one turn of the event loop, and      *)
(* other requests run while it is suspended there                           *)

\* how many requests the client has open at the same time
NumSlots == 3
Slots == 1..NumSlots

\* how long the clock runs
MaxElapsed == 2

\* rateLimit({ windowMs, max }) with small windows, the global limiter wider
\* than the one of the route
ConcurrentOptions ==
    [id \in {"global", "generate"} |->
        IF id = "global" THEN [max |-> 2, windowMs |-> 3, MAX_BUCKETS |-> 50000]
        ELSE [max |-> 1, windowMs |-> 2, MAX_BUCKETS |-> 50000]]

ConcurrentBodies ==
    { Body(Str(TEXT1), Null, Null, Null),
      [Body(Str(TEXT1), Null, Null, Null) EXCEPT !.component = "card"] }

ConcurrentResults ==
    { [kind |-> "error", message |-> "Connection error.", html |-> <<>>],
      [kind |-> "json", message |-> "", html |-> REPLY1] }

ConcurrentInit ==
    /\ CoercerIdle
    /\ opts = ConcurrentOptions
    /\ buckets = [id \in {"global", "generate"} |-> [k \in {Client} |-> NoBucket]]
    /\ lastRes = NoRes
    /\ streak = [k \in {Client} |-> 0]
    /\ burst = [k \in {Client} |-> NoBurst]
    /\ watch = WatchOff
    /\ srv = ServerOff
    /\ inflight = [slots |-> [r \in Slots |-> ServerOff], elapsed |-> 0]
    /\ unswept = NoShadow
    /\ gen = NoCall

\* the client posts one more request, and its body is read
PostSlot(r, body) ==
    /\ inflight.slots[r].pc = "idle"
    /\ \A q \in Slots : q < r => inflight.slots[q].pc # "idle"
    /\ inflight' = [inflight EXCEPT !.slots[r] =
                       [ServerOff EXCEPT !.pc = "received", !.req = body]]
    /\ UNCHANGED lvars
    /\ UNCHANGED cvars
    /\ UNCHANGED <<srv, unswept, gen>>

\* the turn of the event loop that takes request r through the limiters and
\* the handler, up to the response or to the await
DispatchSlot(r) ==
    /\ inflight.slots[r].pc = "received"
    /\ LET d == dispatch(inflight.slots[r], buckets)
       IN  /\ buckets' = d.buckets
           /\ inflight' = [inflight EXCEPT !.slots[r] = d.srv]
    /\ UNCHANGED <<opts, lastRes, streak, burst, watch>>
    /\ UNCHANGED cvars
    /\ UNCHANGED <<srv, unswept, gen>>

\* the backend call of request r settles and the handler resumes
ReturnSlot(r, result) ==
    /\ inflight.slots[r].pc = "awaiting"
    /\ inflight' = [inflight EXCEPT !.slots[r] = resume(@, result)]
    /\ UNCHANGED lvars
    /\ UNCHANGED cvars
    /\ UNCHANGED <<srv, unswept, gen>>

\* Date.now() moves on by d ms, with requests in flight or not
Elapse(d) ==
    /\ d > 0
    /\ inflight.elapsed + d <= MaxElapsed
    /\ buckets' = [id \in DOMAIN buckets |-> age(opts[id], buckets[id], d)]
    /\ inflight' = [inflight EXCEPT !.elapsed = @ + d]
    /\ UNCHANGED <<opts, lastRes, streak, burst, watch>>
    /\ UNCHANGED cvars
    /\ UNCHANGED <<srv, unswept, gen>>

ConcurrentNext ==
    \/ \E r \in Slots, body \in ConcurrentBodies : PostSlot(r, body)
    \/ \E r \in Slots : DispatchSlot(r)
    \/ \E r \in Slots, result \in ConcurrentResults : ReturnSlot(r, result)
    \/ Elapse(1)

ConcurrentSpec == ConcurrentInit /\ [][ConcurrentNext]_vars

-----------------------------------------------------------------------------
(* The client's call of the server, and the server's call of the backend,   *)
(* on the clock (TimeoutSpec): generateButton arms a timer that aborts its  *)
(* fetch; the handler awaits client.responses.create and arms none          *)

\* setTimeout(() => ctrl.abort(), 10_000)
TIMEOUT_MS == 10000

\* how long the clock is followed while the handler awaits the backend
MaxWaited == 15000

\* how many times the client calls generateButton
MaxGenerations == 2

\* the clock's steps
WaitSteps == {5000}

\* what fetch rejects with when its signal is aborted
ABORT_ERROR == "AbortError"

GenerateInputs ==
    { [text |-> Str(TEXT1), color |-> Null, size |-> Null, styleVariant |-> Null],
      [text |-> Str(TEXT2), color |-> Null, size |-> Null, styleVariant |-> Null] }

TimeoutInit ==
    /\ CoercerIdle
    /\ opts = [id \in {"global", "generate"} |->
                  IF id = "global" THEN GlobalOptions ELSE GenerateOptions]
    /\ buckets = [id \in {"global", "generate"} |-> [k \in {Client} |-> NoBucket]]
    /\ lastRes = NoRes
    /\ streak = [k \in {Client} |-> 0]
    /\ burst = [k \in {Client} |-> NoBurst]
    /\ watch = WatchOff
    /\ srv = ServerOff
    /\ inflight = NoneInFlight
    /\ unswept = NoShadow
    /\ gen = NoCall

\* generateButton(input) up to its await fetch: the timer is armed and the
\* request is on its way
Generate(input) ==
    /\ gen.pc \in {"idle", "settled"}
    /\ srv.pc = "idle"
    /\ gen.calls < MaxGenerations
    /\ gen' = [NoCall EXCEPT !.pc = "fetching", !.timer = 0, !.calls = gen.calls + 1]
    /\ srv' = [ServerOff EXCEPT
                  !.pc = "received",
                  !.req = Body(input.text, input.color, input.size, input.styleVariant)]
    /\ UNCHANGED lvars
    /\ UNCHANGED cvars
    /\ UNCHANGED <<inflight, unswept>>

\* the response arrives: clearTimeout, res.text(), and the data returned or
\* an Error thrown with the server's message
Receive ==
    /\ gen.pc = "fetching"
    /\ srv.pc = "done"
    /\ gen' = IF srv.res.status = 200
              THEN [gen EXCEPT !.pc = "settled", !.timer = -1, !.outcome = "returned",
                               !.html = srv.res.html]
              ELSE [gen EXCEPT !.pc = "settled", !.timer = -1, !.outcome = "thrown",
                               !.name = "Error", !.message = srv.res.error,
                               !.retryAfter = srv.res.retryAfter]
    /\ srv' = ServerOff
    /\ UNCHANGED lvars
    /\ UNCHANGED cvars
    /\ UNCHANGED <<inflight, unswept>>

\* the timer fires: ctrl.abort(), fetch rejects and generateButton with it;
\* the handler goes on
Abort ==
    /\ gen.pc = "fetching"
    /\ gen.timer = TIMEOUT_MS
    /\ gen' = [gen EXCEPT !.pc = "settled", !.timer = -1, !.outcome = "thrown",
                          !.name = ABORT_ERROR]
    /\ UNCHANGED lvars
    /\ UNCHANGED cvars
    /\ UNCHANGED <<srv, inflight, unswept>>

\* d ms pass while a call is pending; an armed timer fires when it is due
Pass(d) ==
    /\ d > 0
    /\ gen.pc = "fetching" \/ srv.pc = "awaiting"
    /\ gen.pc = "fetching" => gen.timer < TIMEOUT_MS
    /\ gen' = [gen EXCEPT
                  !.timer = IF gen.pc # "fetching" THEN @
                            ELSE IF @ + d > TIMEOUT_MS THEN TIMEOUT_MS ELSE @ + d,
                  !.waited = IF srv.pc # "awaiting" THEN @
                             ELSE IF @ + d > MaxWaited THEN MaxWaited ELSE @ + d]
    /\ buckets' = [id \in DOMAIN buckets |-> age(opts[id], buckets[id], d)]
    /\ UNCHANGED <<opts, lastRes, streak, burst, watch>>
    /\ UNCHANGED cvars
    /\ UNCHANGED <<srv, inflight, unswept>>

TimeoutNext ==
    \/ \E input \in GenerateInputs : Generate(input)
    \/ Dispatch
    \/ \E r \in BackendResults : BackendReturn(r)
    \/ Receive
    \/ Abort
    \/ \E d \in WaitSteps : Pass(d)
    \/ gen.pc # "fetching" /\ Close

TimeoutSpec == TimeoutInit /\ [][TimeoutNext]_vars

\* the clock runs and a timer that is due fires; the backend may never
\* answer
TimeoutFairSpec ==
    /\ TimeoutSpec
    /\ WF_vars(\E d \in WaitSteps : Pass(d))
    /\ WF_vars(Abort)

-----------------------------------------------------------------------------
(* The coercer on the style text of one button (StyleSpec): the generation *)
(* backend returns <button style="...">Go</button>, whose style text is    *)
(* any sequence of at most MaxStylePieces pieces, and the handler calls    *)
(* coerceSingleButton on it with the cleaned text of the request.          *)

MaxStylePieces == 3

StylePieces == {
    <<"c","o","l","o","r",":">>,
    <<"P","a","d","d","i","n","g",":">>,
    <<"p","o","s","i","t","i","o","n",":">>,
    <<":">>,
    <<";">>,
    <<" ">>,
    <<"r","e","d">>,
    <<"u","r","l","(">>,
    <<"!","I","M","P","O","R","T","A","N","T">>,
    <<"j","a","v","a","s","c","r","i","p","t",":">>,
    <<"E","x","p","r","e","s","s","i","o","n"," ","(">>,
    <<"c","o","l","o","r",":","r","e","d",";">> }

StyleLabels == { <<>>, <<" ">>, <<"O","k">> }

\* the model's answer around a style text
ButtonWithStyle(st) ==
    BUTTON_OPEN \o <<" ">> \o STYLE_Q \o st \o <<"\"", ">", "G", "o">> \o BUTTON_CLOSE

StyleInit ==
    /\ ServerIdle
    /\ style = <<>>
    /\ html = ButtonWithStyle(<<>>)
    /\ label = <<>>
    /\ out = NotRun
    /\ again = NotRun
    /\ cpc = "compose"
    /\ pieces = 0
    /\ LimiterIdle

\* the backend produces one more piece of the style text
EmitStyle(p) ==
    /\ cpc = "compose"
    /\ pieces < MaxStylePieces
    /\ style' = style \o p
    /\ html' = ButtonWithStyle(style')
    /\ pieces' = pieces + 1
    /\ UNCHANGED <<label, out, again, cpc>>
    /\ UNCHANGED lvars
    /\ UNCHANGED svars

\* const safeHtml = coerceSingleButton(String(data.html || ''), textClean)
Coerce(exactText) ==
    /\ cpc = "compose"
    /\ label' = exactText
    /\ out' = coerceSingleButton(html, exactText)
    /\ cpc' = "done"
    /\ UNCHANGED <<style, html, again, pieces>>
    /\ UNCHANGED lvars
    /\ UNCHANGED svars

\* coerceSingleButton on the button it has returned, with the same text
CoerceAgain ==
    /\ cpc = "done"
    /\ ~out.thrown
    /\ again' = coerceSingleButton(out.html, label)
    /\ cpc' = "again"
    /\ UNCHANGED <<style, html, label, out, pieces>>
    /\ UNCHANGED lvars
    /\ UNCHANGED svars

StyleNext ==
    \/ \E p \in StylePieces : EmitStyle(p)
    \/ \E t \in StyleLabels : Coerce(t)
    \/ CoerceAgain

StyleSpec == StyleInit /\ [][StyleNext]_vars

-----------------------------------------------------------------------------
(* The coercer on whole model outputs (CoerceSpec): data.html is any        *)
(* sequence of at most MaxHtmlPieces pieces of HTML.                        *)

MaxHtmlPieces == 4

SCRIPT_TAG == <<"<","s","c","r","i","p","t",">">>

HtmlPieces == {
    BUTTON_OPEN,
    BUTTON_CLOSE,
    <<">">>,
    <<" ">> \o STYLE_Q \o COLOR \o <<":"," ">> \o SCRIPT_TAG \o <<"\"">>,
    <<"\t","D","a","t","a","-","i","d","=","\"","a","&","b","<","c",">","\"">>,
    <<" ","o","n","c","l","i","c","k","=","\"","x","(",")","\"",
      " ","t","y","p","e","=","\"","s","u","b","m","i","t","\"">>,
    <<"H","i">>,
    BUTTON_OPEN \o <<" ">> \o STYLE_Q \o <<"w","i","d","t","h",":","1","p","x","\"",
      " ","d","a","t","a","-","n","=","\"","2","\"",">","N","o">> \o BUTTON_CLOSE }

CoerceLabels == { <<"O","k"," ","g","o">>, <<"a","<","b",">","&","\"","'">> }

CoerceInit ==
    /\ ServerIdle
    /\ style = <<>>
    /\ html = <<>>
    /\ label = <<>>
    /\ out = NotRun
    /\ again = NotRun
    /\ cpc = "compose"
    /\ pieces = 0
    /\ LimiterIdle

\* the backend produces one more piece of data.html
EmitHtml(p) ==
    /\ cpc = "compose"
    /\ pieces < MaxHtmlPieces
    /\ html' = html \o p
    /\ pieces' = pieces + 1
    /\ UNCHANGED <<style, label, out, again, cpc>>
    /\ UNCHANGED lvars
    /\ UNCHANGED svars

CoerceNext ==
    \/ \E p \in HtmlPieces : EmitHtml(p)
    \/ \E t \in CoerceLabels : Coerce(t)
    \/ CoerceAgain

CoerceSpec == CoerceInit /\ [][CoerceNext]_vars

-----------------------------------------------------------------------------
(* Reading a coerced button back, as a consumer of the response does *)

OPEN_STYLE == BUTTON_OPEN \o <<" ">> \o STYLE_Q

\* the value of the style attribute the output opens with, or the empty text
OutStyle(o) ==
    IF LitAt(o, 1, OPEN_STYLE)
    THEN Slice(o, Len(OPEN_STYLE) + 1, IndexOfChar(o, "\"", Len(OPEN_STYLE) + 1) - 1)
    ELSE <<>>

\* the declarations of a style text: split on ; and each on its first :
DeclOf(d) ==
    LET c == IndexOfChar(d, ":", 1)
    IN  IF c = 0 THEN [name |-> trim(d), value |-> <<>>]
        ELSE [name |-> trim(SubSeq(d, 1, c - 1)), value |-> SubSeq(d, c + 1, Len(d))]

Declarations(st) ==
    LET ds == split(st, ";")
    IN  {DeclOf(ds[i]) : i \in {k \in 1..Len(ds) : trim(ds[k]) # <<>>}}

\* the attributes of an opening tag from position i on, up to its >
IsNameChar(c) == c \in UpperCase \cup LowerCase \cup Digits \cup {"-", ":", "_"}

RECURSIVE ReadAttrs(_, _)
ReadAttrs(o, i) ==
    LET j == SkipSpace(o, i)
        e == IndexOfChar(o, "=", j)
        q == IndexOfChar(o, "\"", e + 2)
        bad == [ok |-> FALSE, attrs |-> <<>>, next |-> 0]
    IN  IF j > Len(o) THEN bad
        ELSE IF o[j] = ">" THEN [ok |-> TRUE, attrs |-> <<>>, next |-> j + 1]
        ELSE IF j = i \/ e = 0 \/ e = j \/ e + 1 > Len(o) \/ q = 0 THEN bad
        ELSE IF o[e + 1] # "\"" \/ \E k \in j..(e - 1) : ~IsNameChar(o[k]) THEN bad
        ELSE LET rest == ReadAttrs(o, q + 1)
             IN  [ok |-> rest.ok,
                  attrs |-> <<[name |-> Slice(o, j, e - 1),
                               value |-> Slice(o, e + 2, q - 1)]>> \o rest.attrs,
                  next |-> rest.next]

\* the output read as one element: its attributes and its inner text
ReadButton(o) ==
    LET r == IF LitAt(o, 1, BUTTON_OPEN) THEN ReadAttrs(o, Len(BUTTON_OPEN) + 1)
             ELSE [ok |-> FALSE, attrs |-> <<>>, next |-> 0]
        last == Len(o) - Len(BUTTON_CLOSE)
        inner == Slice(o, r.next, last)
    IN  IF r.ok /\ r.next <= last + 1 /\ LitAt(o, last + 1, BUTTON_CLOSE)
              /\ IndexOfChar(inner, "<", 1) = 0
        THEN [ok |-> TRUE, attrs |-> r.attrs, text |-> inner]
        ELSE [ok |-> FALSE, attrs |-> <<>>, text |-> <<>>]

\* the text a browser shows for an inner text: the five entities decoded
RECURSIVE HtmlDecode(_)
HtmlDecode(t) ==
    IF t = <<>> THEN <<>>
    ELSE IF LitAt(t, 1, AMP) THEN <<"&">> \o HtmlDecode(SubSeq(t, Len(AMP) + 1, Len(t)))
    ELSE IF LitAt(t, 1, LT) THEN <<"<">> \o HtmlDecode(SubSeq(t, Len(LT) + 1, Len(t)))
    ELSE IF LitAt(t, 1, GT) THEN <<">">> \o HtmlDecode(SubSeq(t, Len(GT) + 1, Len(t)))
    ELSE IF LitAt(t, 1, QUOT) THEN <<"\"">> \o HtmlDecode(SubSeq(t, Len(QUOT) + 1, Len(t)))
    ELSE IF LitAt(t, 1, APOS) THEN <<"'">> \o HtmlDecode(SubSeq(t, Len(APOS) + 1, Len(t)))
    ELSE <<Head(t)>> \o HtmlDecode(Tail(t))

ForbiddenInValue(v) ==
    \/ ContainsCI(v, URL \o <<"(">>)
    \/ ContainsCI(v, IMPORTANT)
    \/ ContainsCI(v, EXPRESSION \o <<"(">>)
    \/ ContainsCI(v, JAVASCRIPT_COLON)

-----------------------------------------------------------------------------
(* Claims about the style of the output *)

\* C1: every style declaration in the output of coerceSingleButton, the ones
\* added for an empty label included, has a property name of the allow-list
\* and a value without url(, !important, expression( and javascript:,
\* whatever their case.
C1_StyleAllowListed ==
    (cpc = "done" /\ ~out.thrown) =>
        \A d \in Declarations(OutStyle(out.html)) :
            d.name \in allow /\ ~ForbiddenInValue(d.value)

\* C1's case: a style text with a property off the allow-list and a url( value,
\* coerced for an empty label, of which one declaration survives
C1_Witness ==
    /\ cpc = "done"
    /\ label = <<>>
    /\ ContainsCI(style, <<"p","o","s","i","t","i","o","n">>)
    /\ ContainsCI(style, URL \o <<"(">>)
    /\ [name |-> COLOR, value |-> <<" ","r","e","d">>] \in Declarations(OutStyle(out.html))
    /\ Cardinality(Declarations(OutStyle(out.html))) = 3

-----------------------------------------------------------------------------
(* Claims about the element the coercer returns *)

\* C2: the inner text of the returned button is exactly the HTML-escaped
\* cleaned text of the request (and shows as that text, character for
\* character), whatever inner text the model put in its own button.
C2_LabelIsRequestText ==
    (cpc = "done" /\ ~out.thrown) =>
        LET b == ReadButton(out.html)
        IN  b.ok /\ b.text = escapeHtml(label) /\ HtmlDecode(b.text) = label

\* C2's case: the model wrote its own inner text, and the request's text needs
\* escaping
C2_Witness ==
    /\ cpc = "done"
    /\ ~out.thrown
    /\ modelInnerText(buttonMatches(html, 1)[1]) = <<"H","i">>
    /\ label = <<"a","<","b",">","&","\"","'">>

TYPE == <<"t","y","p","e">>
BUTTON == <<"b","u","t","t","o","n">>
STYLE == <<"s","t","y","l","e">>

\* the attributes are an optional non-empty style, then data-* attributes,
\* then type="button", and nothing else
AttrsInOrder(attrs) ==
    /\ Len(attrs) >= 1
    /\ attrs[Len(attrs)] = [name |-> TYPE, value |-> BUTTON]
    /\ \A i \in 1..(Len(attrs) - 1) :
          \/ i = 1 /\ attrs[i].name = STYLE /\ attrs[i].value # <<>>
          \/ IsDataName(attrs[i].name)

C3_Structure ==
    (cpc = "done" /\ ~out.thrown) =>
        LET b == ReadButton(out.html) IN b.ok /\ AttrsInOrder(b.attrs)

\* C3: every successful output is one <button ...>label</button> whose
\* attributes are an optional style, then data-* attributes, then exactly one
\* type="button", with no other attribute, and no <script> substring appears
\* in the output.
C3_OneSafeButton ==
    (cpc = "done" /\ ~out.thrown) =>
        LET b == ReadButton(out.html)
        IN  b.ok /\ AttrsInOrder(b.attrs) /\ ~ContainsCI(out.html, SCRIPT_TAG)

-----------------------------------------------------------------------------
(* Claims about the rate limiter *)

\* C4: in every reachable state of a limiter every bucket of its table has
\* 0 <= tokens <= capacity.
C4_TokensInRange ==
    \A id \in DOMAIN buckets : \A k \in DOMAIN buckets[id] :
        buckets[id][k] # NoBucket =>
            /\ buckets[id][k].tokens >= 0
            /\ buckets[id][k].tokens <= Full(opts[id])

\* C4's case: a request has just found a half-used bucket idle for a full
\* window, so that the refill had to be clamped, and another bucket holds a
\* fraction of a token
C4_Witness ==
    /\ lastRes.burst = 1
    /\ lastRes.from > 0
    /\ lastRes.refilled = Full(opts["test"])
    /\ \E k \in Keys : /\ buckets["test"][k] # NoBucket
                       /\ buckets["test"][k].tokens % OneToken(opts["test"]) # 0

\* C5: after capacity requests of a key were admitted with no time elapsing,
\* the key's next request at the same instant is rejected with status 429 and
\* a Retry-After greater than 0.
C5_RejectedAfterCapacity ==
    (lastRes.key # 0 /\ lastRes.streak >= opts["test"].max) =>
        (lastRes.status = 429 /\ ~lastRes.admitted /\ lastRes.retryAfter > 0)

\* C5's case: the request after a streak of exactly capacity admitted ones
C5_Witness ==
    /\ lastRes.key # 0
    /\ lastRes.streak = opts["test"].max
    /\ lastRes.status = 429

\* C6: a request that finds its key's bucket idle for a full window or more
\* refills it to exactly capacity, whatever it held, so that this request and
\* the capacity - 1 immediate ones after it are admitted and the one after
\* them is rejected.
C6_FullAfterWindow ==
    LET o == opts["test"]
    IN  /\ lastRes.burst = 1 => (lastRes.refilled = Full(o) /\ lastRes.admitted)
        /\ (lastRes.burst >= 2 /\ lastRes.burst <= o.max) => lastRes.admitted
        /\ lastRes.burst = o.max + 1 => (lastRes.status = 429 /\ ~lastRes.admitted)

\* C6's case: a bucket that was empty, a full window later: capacity requests
\* admitted and the next one just rejected
C6_Witness ==
    /\ lastRes.burst = opts["test"].max + 1
    /\ lastRes.from = 0
    /\ lastRes.status = 429

\* the 61st counted request of the client has just been answered
SixtyFirstAnswered ==
    /\ watch.on
    /\ watch.count = WatchCount
    /\ lastRes.key = Client

RejectedWithRetryAfter ==
    /\ lastRes.status = 429
    /\ lastRes.retryAfter \in Nat \ {0}

\* C7 as stated: the 61st request of one client within 60 seconds is answered
\* 429 with a positive integer Retry-After, however the 61 requests are
\* spread over the 60 seconds.
C7_SixtyFirstRejected ==
    (SixtyFirstAnswered /\ watch.since <= 60000) => RejectedWithRetryAfter

\* C7 as amended: when the first 60 of the requests were admitted and the
\* 61st comes before the bucket has refilled one token (less than one second
\* after the first), it is answered 429 with a positive integer Retry-After.
C7_SixtyFirstRejectedWithinOneToken ==
    ( /\ SixtyFirstAnswered
      /\ watch.admitted - (IF lastRes.admitted THEN 1 ELSE 0) = GlobalOptions.max
      /\ watch.since * GlobalOptions.max < GlobalOptions.windowMs )
        => RejectedWithRetryAfter

\* C7's case: 60 requests admitted and the 61st, half a second after the
\* first, rejected
C7_Witness ==
    /\ SixtyFirstAnswered
    /\ watch.admitted = GlobalOptions.max
    /\ watch.since = 500
    /\ RejectedWithRetryAfter

\* C8: the number of buckets of a limiter never exceeds its cap MAX_BUCKETS.
C8_TableWithinCap ==
    \A id \in DOMAIN buckets : Size(buckets[id]) <= opts[id].MAX_BUCKETS

-----------------------------------------------------------------------------
(* Claims about the request normalizer *)

\* what cleaning makes of a field: norm, then truncation; null stays null
cleaned(v, maxLen) == IF v.null THEN Null ELSE Str(slice(norm(v), maxLen))

\* C9: when the backend is called for a request whose style descriptor is
\* non-empty after cleaning, the color and size sent to it are null whatever
\* the client sent; when the descriptor is absent or empty after cleaning,
\* the client's cleaned color and size are sent.
C9_DescriptorWins ==
    srv.sent.called =>
        IF cleaned(srv.req.styleVariant, 80).s # <<>>
        THEN srv.sent.color = Null /\ srv.sent.size = Null
        ELSE /\ srv.sent.color = cleaned(srv.req.color, 50)
             /\ srv.sent.size = cleaned(srv.req.size, 50)

\* C9's case: the client sent a descriptor, a color and a size, and the
\* backend was called
C9_Witness ==
    /\ srv.sent.called
    /\ cleaned(srv.req.styleVariant, 80).s # <<>>
    /\ ~srv.req.color.null
    /\ ~srv.req.size.null
    /\ srv.sent.color = Null
    /\ srv.sent.size = Null

\* some cleaned field of the request matches a pattern of the deny-list
DeniedField(body) ==
    \/ DENY(cleaned(Str(clampText(body.text)), 200).s)
    \/ DENY(cleaned(body.color, 50).s)
    \/ DENY(cleaned(body.size, 50).s)
    \/ DENY(cleaned(body.styleVariant, 80).s)

\* the request has passed both limiters and the handler has run
Handled ==
    /\ srv.pc \in {"awaiting", "done"}
    /\ srv.res.status # 429

Rejected400 ==
    /\ ~srv.sent.called
    /\ srv.res.status = 400
    /\ ~srv.res.ok

SentFieldsClean ==
    srv.sent.called =>
        \A f \in {srv.sent.text, srv.sent.color, srv.sent.size, srv.sent.style} : ~DENY(f.s)

\* C10 as stated: a request with a cleaned text, color, size or style
\* descriptor that matches the deny-list is answered 400 with ok false and
\* the backend is not called for it; no field sent to the backend matches
\* the deny-list.
C10_DeniedFieldRejected ==
    /\ (Handled /\ DeniedField(srv.req)) => Rejected400
    /\ SentFieldsClean

\* the same over the fields the descriptor leaves in the request: color and
\* size count only when the descriptor is absent or empty after cleaning
DeniedFieldInUse(body) ==
    \/ DENY(cleaned(Str(clampText(body.text)), 200).s)
    \/ DENY(cleaned(body.styleVariant, 80).s)
    \/ /\ cleaned(body.styleVariant, 80).s = <<>>
       /\ DENY(cleaned(body.color, 50).s) \/ DENY(cleaned(body.size, 50).s)

\* C10 as amended: a request whose cleaned text or style descriptor, or,
\* when the descriptor is absent or empty after cleaning, whose cleaned
\* color or size matches the deny-list is answered 400 with ok false and the
\* backend is not called for it; no field sent to the backend matches the
\* deny-list.
C10_FieldInUseRejected ==
    /\ (Handled /\ DeniedFieldInUse(srv.req)) => Rejected400
    /\ SentFieldsClean

\* C10's case: a text that matches the deny-list only once it is normalized,
\* rejected
C10_Witness ==
    /\ Handled
    /\ srv.req.text = Str(TEXT2)
    /\ DeniedFieldInUse(srv.req)
    /\ Rejected400
    /\ srv.res.error = "Rejected text"

-----------------------------------------------------------------------------
(* Claims about the empty label *)

IsEmptyLabel(t) == t = <<>> \/ trim(t) = <<>>

PADDING_ADDED == [name |-> PADDING, value |-> SubSeq(ADD_PADDING, Len(PADDING) + 2, Len(ADD_PADDING))]
BORDER_ADDED == [name |-> BORDER, value |-> SubSeq(ADD_BORDER, Len(BORDER) + 2, Len(ADD_BORDER))]

\* the style of the output has a declaration of property name, one that the
\* sanitized style of the model had or else the one the coercer adds
HasSurvivingOrAdded(name, added) ==
    LET decls == Declarations(OutStyle(out.html))
        survived == {d \in Declarations(sanitizeStyle(style)) : d.name = name}
    IN  /\ \E d \in decls : d.name = name
        /\ IF survived # {} THEN survived \subseteq decls /\ added \notin decls
           ELSE added \in decls

\* the style of the output for an empty label and for any other label
EmptyLabelStyled ==
    (cpc = "done" /\ ~out.thrown) =>
        IF IsEmptyLabel(label)
        THEN /\ HasSurvivingOrAdded(PADDING, PADDING_ADDED)
             /\ HasSurvivingOrAdded(BORDER, BORDER_ADDED)
             /\ OutStyle(out.html) # <<>>
        ELSE OutStyle(out.html) = sanitizeStyle(style)

-----------------------------------------------------------------------------
(* Claims about the coercer as a function *)

\* C12: coerceSingleButton applied to its own output, with the same text,
\* returns that output unchanged, character for character.
C12_Idempotent ==
    cpc = "again" => (~again.thrown /\ again.html = out.html)

\* the same for the style alone
C12_StyleIdempotent ==
    cpc = "again" => (~again.thrown /\ OutStyle(again.html) = OutStyle(out.html))

\* h has a fragment <button ... </button>: an opening <button that ends a
\* word, and a closing tag somewhere after it
HasButtonFragment(h) ==
    \E i \in 1..Len(h) : \E j \in (i + Len(BUTTON_OPEN))..Len(h) :
        ButtonStartAt(h, i) /\ LitAtCI(h, j, BUTTON_CLOSE)

\* the first of them: from the leftmost opening to the first closing after it
FirstFragment(h) ==
    LET i == CHOOSE i \in 1..Len(h) :
                 /\ ButtonStartAt(h, i)
                 /\ \A k \in 1..(i - 1) : ~ButtonStartAt(h, k)
        j == CHOOSE j \in (i + Len(BUTTON_OPEN))..Len(h) :
                 /\ LitAtCI(h, j, BUTTON_CLOSE)
                 /\ \A k \in (i + Len(BUTTON_OPEN))..(j - 1) : ~LitAtCI(h, k, BUTTON_CLOSE)
    IN  SubSeq(h, i, j + Len(BUTTON_CLOSE) - 1)

\* how many openings <button the model's HTML has
ButtonStarts(h) == Cardinality({i \in 1..Len(h) : ButtonStartAt(h, i)})

\* C13: when the backend's JSON has HTML without a <button ...>...</button>
\* fragment, and only then, coerceSingleButton fails and the request is
\* answered 400 with ok false and no html; with one button or more it is
\* answered 200 with the button coerced from the first fragment alone.
C13_FailsIffNoButton ==
    (srv.pc = "done" /\ srv.reply.kind = "json") =>
        IF ~HasButtonFragment(srv.reply.html)
        THEN srv.res.status = 400 /\ ~srv.res.ok /\ srv.res.html = <<>>
        ELSE /\ srv.res.status = 200 /\ srv.res.ok
             /\ srv.res.html =
                    coerceSingleButton(FirstFragment(srv.reply.html), srv.sent.text.s).html

\* C13's case: two buttons came back, and the answer has the style and the
\* data attribute of the first and nothing of the second
C13_Witness ==
    /\ srv.pc = "done"
    /\ srv.reply.kind = "json"
    /\ ButtonStarts(srv.reply.html) = 2
    /\ srv.res.status = 200
    /\ LET b == ReadButton(srv.res.html)
       IN  /\ b.ok
           /\ \E i \in 1..Len(b.attrs) : b.attrs[i] = [name |-> <<"d","a","t","a","-","a">>, value |-> <<"1">>]
           /\ ~\E i \in 1..Len(b.attrs) : b.attrs[i].name = <<"d","a","t","a","-","b">>
           /\ OutStyle(srv.res.html) = COLOR \o <<":"," ","r","e","d">>

\* where the tag that starts before i ends: the first > from i on that is
\* not inside a quoted attribute value (quote is the open quote, or "")
RECURSIVE TagEnd(_, _, _)
TagEnd(f, i, quote) ==
    IF i > Len(f) THEN Len(f)
    ELSE IF quote # "" THEN TagEnd(f, i + 1, IF f[i] = quote THEN "" ELSE quote)
    ELSE IF f[i] = ">" THEN i
    ELSE TagEnd(f, i + 1, IF f[i] \in {"\"", "'"} THEN f[i] ELSE "")

\* the opening tag of a fragment <button ... </button>
OpeningTag(f) == SubSeq(f, 1, TagEnd(f, Len(BUTTON_OPEN) + 1, ""))

\* the same button with no inner content
TagOnly(f) == OpeningTag(f) \o BUTTON_CLOSE

\* C17: the coercer harvests the style and the data-* attributes from the
\* opening tag of the chosen button alone: its output is what it makes of
\* that button with the inner content taken out, so that nothing of the
\* inner content shows in the output.
C17_OnlyOpeningTag ==
    (cpc = "done" /\ ~out.thrown) =>
        out.html = coerceSingleButton(TagOnly(FirstFragment(html)), label).html

-----------------------------------------------------------------------------
(* Claims about the declarations of the style *)

\* the rules sanitizeStyle works on: the style split on ; and trimmed, the
\* empty ones left out
RulesOf(st) ==
    LET raw == split(st, ";")
    IN  {trim(raw[i]) : i \in {k \in 1..Len(raw) : trim(raw[k]) # <<>>}}

\* C18: sanitizeStyle splits a declaration on its first colon only: a
\* declaration that it keeps is emitted as the lower-cased property before
\* the first colon and the whole trimmed text after that colon, further
\* colons included, and this whole value has none of the forbidden
\* substrings.
C18_SplitOnFirstColon ==
    (cpc = "done" /\ ~out.thrown) =>
        \A rule \in RulesOf(style) :
            LET d == DeclOf(rule)
                p == toLowerCase(d.name)
                v == trim(d.value)
                kept == sanitizeRule(rule)
            IN  kept # <<>> =>
                  /\ kept = p \o <<":", " ">> \o v
                  /\ ~ForbiddenInValue(v)

-----------------------------------------------------------------------------
(* Claims about the path of a request *)

\* the request has been through the middleware
Dispatched == srv.pc \in {"awaiting", "done"}

AdmittedByBoth == srv.admitted.global /\ srv.admitted.generate

\* the Normalizer rejects the body
Invalid(body) == body.component # "button" \/ DeniedFieldInUse(body)

\* C14: the backend is called at most once for a request, also when the call
\* has failed, and only for a request that both limiters have admitted and
\* whose component is "button"; a request that a limiter or the validation
\* rejects is never sent to it.
C14_BackendAtMostOnce ==
    /\ srv.calls <= 1
    /\ srv.sent.called <=> srv.calls = 1
    /\ srv.calls >= 1 => (AdmittedByBoth /\ srv.req.component = "button")
    /\ (Dispatched /\ (~AdmittedByBoth \/ Invalid(srv.req))) =>
           (srv.calls = 0 /\ ~srv.sent.called /\ srv.reply = NoReply)
    /\ srv.res.status = 429 => srv.calls = 0

\* C14's case: the one call of the backend has failed and the request is
\* answered without another
C14_Witness ==
    /\ srv.pc = "done"
    /\ srv.reply.kind = "error"
    /\ srv.calls = 1
    /\ srv.res.status = 400

\* C15 as stated: the Normalizer comes before the rate limiters: a limiter is
\* consulted only for a request that has passed validation, and a request
\* that the Normalizer rejects leaves both buckets as they were.
C15_NormalizerFirst ==
    (Dispatched /\ Invalid(srv.req)) =>
        /\ srv.found = NotRefilled
        /\ srv.left = NotRefilled
        /\ srv.res.status = 400

\* C15 as amended: the rate limiters come before the Normalizer: every
\* request is put to the global limiter and, if admitted, to generateLimiter,
\* each taking a token; only then is it validated, so a request that the
\* Normalizer rejects has spent a token in both buckets, and a request that a
\* limiter rejects is answered 429, valid or not; the backend is called for
\* what passes all three, and the coercer runs on what the backend returns.
C15_LimitersFirst ==
    Dispatched =>
        /\ srv.found.global >= 0
        /\ srv.admitted.global <=> srv.found.generate >= 0
        /\ srv.admitted.global =>
               srv.left.global = srv.found.global - OneToken(opts["global"])
        /\ srv.admitted.generate =>
               srv.left.generate = srv.found.generate - OneToken(opts["generate"])
        /\ \A id \in DOMAIN buckets :
               srv.found[id] >= 0 => buckets[id][Client].tokens = srv.left[id]
        /\ ~AdmittedByBoth => (srv.res.status = 429 /\ srv.calls = 0)
        /\ (AdmittedByBoth /\ Invalid(srv.req)) => (srv.res.status = 400 /\ srv.calls = 0)
        /\ (AdmittedByBoth /\ ~Invalid(srv.req)) => srv.calls = 1
        /\ srv.res.status = 200 => (srv.calls = 1 /\ srv.reply.kind = "json")

\* C15's case: a request for another component, answered 400 after it has
\* spent a token in both buckets
C15_Witness ==
    /\ srv.pc = "done"
    /\ srv.req.component = "card"
    /\ srv.res.status = 400
    /\ AdmittedByBoth
    /\ srv.left.global = srv.found.global - OneToken(opts["global"])
    /\ srv.left.generate = srv.found.generate - OneToken(opts["generate"])
    /\ buckets["generate"][Client].tokens = srv.left.generate

-----------------------------------------------------------------------------
(* Claims about upstream failures *)

\* a result of the backend call that gives no button: the call has failed,
\* the output is empty or is not JSON, or its HTML has no button fragment
IsUpstreamFailure(r) == r.kind # "json" \/ ~HasButtonFragment(r.html)

\* C19: every upstream failure is answered 400 with ok false, no html and an
\* error text that is the same for every cause and that does not give the
\* message of the failure away.
C19_GenericUpstreamError ==
    /\ (srv.pc = "done" /\ srv.calls = 1 /\ IsUpstreamFailure(srv.reply)) =>
          /\ srv.res.status = 400
          /\ ~srv.res.ok
          /\ srv.res.html = <<>>
          /\ srv.reply.message # "" => srv.res.error # srv.reply.message
    /\ srv.pc = "awaiting" =>
          \A r, q \in {x \in BackendResults : IsUpstreamFailure(x)} :
              resume(srv, r).res.error = resume(srv, q).res.error

\* what holds of an upstream failure: 400, ok false and no html
UpstreamFailureIs400 ==
    (srv.pc = "done" /\ srv.calls = 1 /\ IsUpstreamFailure(srv.reply)) =>
        (srv.res.status = 400 /\ ~srv.res.ok /\ srv.res.html = <<>> /\ srv.res.error # "")

-----------------------------------------------------------------------------
(* Claims about requests handled at the same time *)

\* the requests that limiter id has admitted
AdmittedBy(id) == {r \in Slots : inflight.slots[r].admitted[id]}

\* the requests that limiter id has been put to
PutTo(id) == {r \in Slots : inflight.slots[r].found[id] >= 0}

\* C16: a limiter's refill, test and decrement of a bucket are one step
\* with respect to the other requests of the key, those suspended in the
\* backend call included: no decrement is lost, so that the tokens taken and
\* the tokens left never exceed the capacity and what the elapsed time has
\* refilled, and while no time has elapsed the bucket holds the capacity less
\* one token for each request admitted, no two of them have left the same
\* number of tokens, and at most capacity of them are admitted.
C16_NoDecrementLost ==
    \A id \in DOMAIN buckets :
        LET o == opts[id]
            b == buckets[id][Client]
            n == Cardinality(AdmittedBy(id))
        IN  b # NoBucket =>
              /\ b.tokens >= 0
              /\ n * OneToken(o) + b.tokens <= Full(o) + inflight.elapsed * o.max
              /\ inflight.elapsed = 0 =>
                    /\ n <= o.max
                    /\ b.tokens = Full(o) - n * OneToken(o)
                    /\ \A r, q \in AdmittedBy(id) :
                          r # q => inflight.slots[r].left[id] # inflight.slots[q].left[id]
                    /\ (PutTo(id) \ AdmittedBy(id) # {}) => n = o.max

\* C16's case: with no time elapsed and a request still suspended in the
\* backend call, both limiters have admitted their capacity and each has
\* rejected a request
C16_Witness ==
    /\ inflight.elapsed = 0
    /\ \E r \in Slots : inflight.slots[r].pc = "awaiting"
    /\ \A id \in DOMAIN buckets :
          /\ Cardinality(AdmittedBy(id)) = opts[id].max
          /\ PutTo(id) \ AdmittedBy(id) # {}

-----------------------------------------------------------------------------
(* Claims about the sweep *)

\* C20: the sweep removes a bucket only when it has been idle for more than
\* 5 x windowMs, and below the table's cap every request is answered the
\* same, admitted or rejected, with the same Retry-After and the same
\* remaining tokens, as it is by a table that is never swept; the two tables
\* differ only in stale buckets that the sweep has removed.
C20_SweepNotNeeded ==
    /\ \A idle \in unswept.removed : idle > 5 * opts["test"].windowMs
    /\ lastRes.key # 0 =>
          /\ lastRes.admitted = unswept.res.admitted
          /\ lastRes.status = unswept.res.status
          /\ lastRes.retryAfter = unswept.res.retryAfter
          /\ lastRes.remaining = unswept.res.remaining
    /\ \A k \in DOMAIN unswept.table :
          \/ buckets["test"][k] = unswept.table[k]
          \/ /\ buckets["test"][k] = NoBucket
             /\ unswept.table[k].idle > 5 * opts["test"].windowMs

\* C20's case: a bucket was emptied and then swept, and the next request of
\* its key is admitted by a new bucket, as it is by the old one left in place
C20_Witness ==
    /\ lastRes.key # 0
    /\ unswept.recreated
    /\ unswept.stale >= 0
    /\ unswept.stale < OneToken(opts["test"])
    /\ lastRes.admitted
    /\ unswept.res.admitted

-----------------------------------------------------------------------------
(* Claims about timeouts *)

\* C21: every generation call is bounded by a timeout of at most 10 s: the
\* handler does not await the backend for longer, the client does not await
\* the server for longer, and a call that has timed out ends with a failure
\* that differs from an error the other side has reported.
C21_CallsTimeBounded ==
    /\ srv.pc = "awaiting" => gen.waited <= TIMEOUT_MS
    /\ gen.pc = "fetching" => gen.timer <= TIMEOUT_MS
    /\ (gen.pc = "settled" /\ gen.name = ABORT_ERROR) =>
          (gen.outcome = "thrown" /\ gen.message = "" /\ gen.html = <<>>)
    /\ (gen.pc = "settled" /\ gen.outcome = "thrown" /\ gen.message # "") =>
          gen.name # ABORT_ERROR

\* the client's half of it, which holds: the fetch is pending for 10 s at
\* most, and a timeout is an AbortError and no Error made of a response
ClientCallTimeBounded ==
    /\ gen.pc = "fetching" => gen.timer <= TIMEOUT_MS
    /\ (gen.pc = "settled" /\ gen.name = ABORT_ERROR) =>
          (gen.outcome = "thrown" /\ gen.message = "" /\ gen.html = <<>>)
    /\ (gen.pc = "settled" /\ gen.outcome = "thrown" /\ gen.message # "") =>
          gen.name # ABORT_ERROR

\* a pending generateButton is released, answered or not
ClientCallReleased == (gen.pc = "fetching") ~> (gen.pc = "settled")

\* a handler that awaits the backend is released, answered or not
ServerCallReleased == (srv.pc = "awaiting") ~> (srv.pc = "done")

\* the client has given up after 10 s and the handler still awaits the backend
ClientTimedOut ==
    /\ gen.pc = "settled"
    /\ gen.name = ABORT_ERROR
    /\ srv.pc = "awaiting"
    /\ gen.waited >= TIMEOUT_MS

-----------------------------------------------------------------------------
(* Claims about the rate a limiter lets through *)

\* C22: in every interval of T ms, whenever it starts, a limiter admits at
\* most capacity + T * capacity / windowMs requests of one key, whatever the
\* times of the requests, and also when the key's bucket is swept and
\* created again inside the interval.
C22_RateBound ==
    watch.on =>
        watch.admitted * OneToken(opts["test"])
            <= Full(opts["test"]) + watch.since * opts["test"].max

\* C22's case: inside the interval the key's bucket has been swept and
\* created again, and more requests than the capacity have been admitted
C22_Witness ==
    /\ watch.on
    /\ watch.recreated
    /\ watch.admitted > opts["test"].max
    /\ lastRes.key = Client
    /\ lastRes.admitted

-----------------------------------------------------------------------------
(* Claims about Retry-After *)

\* C23 as stated: a request that comes Retry-After seconds or more after its
\* key's bucket has rejected one, with no request of the key in between, is
\* admitted.
C23_AdmittedAfterRetryAfter ==
    watch.retried => watch.admitted

\* C23 as amended: it is admitted, unless the key's bucket has been swept in
\* the meantime and the table is full.
C23_AdmittedUnlessSweptAndFull ==
    watch.retried => (watch.admitted <=> ~(watch.gone /\ watch.full))

\* C23's case: the request comes when Retry-After is just over, finds its
\* bucket refilled to one token or more but not to the full, and is admitted
C23_Witness ==
    /\ watch.retried
    /\ watch.admitted
    /\ ~watch.gone
    /\ lastRes.refilled >= OneToken(opts["test"])
    /\ lastRes.refilled < Full(opts["test"])

====
